---- MODULE Spec2Model ----
(***************************************************************************)
(* A model of the Broadcast Audio Scan Service state machine of            *)
(* src/shared/bass.c (control point validation, Broadcast Receive State    *)
(* encoding and decoding, the client's tracking of remote sources) and of  *)
(* the ATT transport and GATT client discovery rules it is built on.       *)
(*                                                                         *)
(* Byte buffers are sequences of naturals below 256.  An iovec is the      *)
(* sequence of bytes still to be pulled.  malloc is taken to succeed.      *)
(***************************************************************************)
EXTENDS Integers, Sequences, FiniteSets, TLC

\* ------------------------------------------------------------------ bounds

\* Most subgroups a generated record or command declares.
MaxSubgroups == 2
\* Longest metadata a generated subgroup carries.
MaxMetaLen == 1
\* Most trailing bytes appended to a well-formed control point command.
MaxExtra == 1
\* Most reads of Broadcast Receive State the client has outstanding at once.
MaxPendingReads == 2

\* --------------------------------------------------------------- constants

NUM_BCAST_RECV_STATES == 2
BT_BASS_BCAST_CODE_SIZE == 16
BT_BASS_BCAST_SRC_LEN == 15
BT_BASS_BCAST_SRC_SUBGROUP_LEN == 5

BT_BASS_ERROR_OPCODE_NOT_SUPPORTED == 128
BT_BASS_ERROR_INVALID_SOURCE_ID == 129
BT_ERROR_WRITE_REQUEST_REJECTED == 252

BT_BASS_BIG_ENC_STATE_NO_ENC == 0
BT_BASS_BIG_ENC_STATE_BCODE_REQ == 1
BT_BASS_BIG_ENC_STATE_DEC == 2
BT_BASS_BIG_ENC_STATE_BAD_CODE == 3

BT_BASS_REMOTE_SCAN_STOPPED == 0
BT_BASS_REMOTE_SCAN_STARTED == 1
BT_BASS_ADD_SRC == 2
BT_BASS_MOD_SRC == 3
BT_BASS_SET_BCAST_CODE == 4
BT_BASS_REMOVE_SRC == 5

BT_ATT_OP_ERROR_RSP == 1
BT_ATT_OP_WRITE_REQ == 18
BT_ATT_OP_WRITE_RSP == 19
BT_ATT_OP_WRITE_CMD == 82

\* Handle of the Broadcast Audio Scan Control Point value attribute.
CP_HANDLE == 9

\* sizeof of the packed control point structures of bass.h.
SizeofHdr == 1
SizeofBdaddr == 6
SizeofAddSrcParams == 1 + SizeofBdaddr + 1 + 3 + 1 + 2 + 1
SizeofModSrcParams == 1 + 1 + 2 + 1
SizeofSetBcastCodeParams == 1 + BT_BASS_BCAST_CODE_SIZE
SizeofRemoveSrcParams == 1

\* ------------------------------------------------------------------- state

VARIABLES
    host_be,      \* the build's byte order: TRUE on a big-endian host
    ldb_srcs,     \* bap->ldb->bass_bcast_srcs: sources the local server tracks
    rdb_srcs,     \* bap->rdb->bass_bcast_srcs: sources the client tracks
    cp,           \* the last control point write and what it produced
    rd_pending,   \* reads of Broadcast Receive State outstanding, oldest first
    notify_reg,   \* attributes with bcast_recv_state_notify registered
    rx,           \* the last Broadcast Receive State value the client received
    srv_rd,       \* the last result of the server's Broadcast Receive State read
    codec,        \* a record, its encoding and the decoding of that
    att,          \* the ATT connection: its state and its two pending slots
    att_wire,     \* the PDUs transmitted on the connection, in order
    att_cb,       \* the callbacks the transport has invoked, in order
    ind_queue,    \* indications queued and not yet transmitted
    att_call,     \* the last call into the transport and its outcome
    att_dis,      \* what the disconnect procedure found and left
    cli,          \* btgatt-client's client object: "live" or "null"
    disc,         \* the GATT client's discovery procedure
    mtu,          \* the Exchange MTU procedure and both sides' MTU
    ccc,          \* the test servers' CCC states and the last CCC callback
    rw,           \* btgatt-client's reliable-write session and last command
    csip,         \* the CSIP sessions and their list, the callback entries
    mics,         \* the microphone control server: mute state and last request
    cache,        \* the GATT client's service cache and its discovery position
    asha          \* the ASHA device: stream state, pending control point writes

attVars == <<att, att_wire, att_cb, ind_queue, att_call, att_dis, cli>>
discVars == <<disc>>
svcVars == <<csip, mics, cache, asha>>
gattVars == <<mtu, ccc, rw, svcVars>>

vars == <<host_be, ldb_srcs, rdb_srcs, cp, rd_pending, notify_reg, rx,
          srv_rd, codec, attVars, discVars, gattVars>>

\* ----------------------------------------------------------------- helpers

Byte(x, i) == (x \div (256 ^ i)) % 256

Zeros(n) == [i \in 1..n |-> 0]

\* A uint32_t is its four bytes, least significant first (its value is
\* v[1] + 256 * v[2] + 65536 * v[3] + 16777216 * v[4]): all 32 bits are kept.
U32(x) == <<Byte(x, 0), Byte(x, 1), Byte(x, 2), 0>>

\* get_le24 / get_le32, as bass.c uses them: the value of little-endian bytes.
get_le24(b) == <<b[1], b[2], b[3], 0>>
get_le32(b) == <<b[1], b[2], b[3], b[4]>>

\* The bytes of a uint32_t as they lie in memory on the host.
HostBytes32(v) ==
    IF host_be THEN <<v[4], v[3], v[2], v[1]>> ELSE v

\* util_iov_pull_mem(iov, len): NULL when fewer than len bytes are left.
util_iov_pull_mem(iov, len) ==
    [ok  |-> Len(iov) >= len,
     mem |-> IF Len(iov) >= len THEN SubSeq(iov, 1, len) ELSE <<>>,
     iov |-> IF Len(iov) >= len THEN SubSeq(iov, len + 1, Len(iov)) ELSE iov]

\* A zeroed struct bt_bcast_src bound to a characteristic (memset 0).  ptr
\* stands for the address of the allocation.
NewSrc(attr) ==
    [ptr |-> 0, attr |-> attr, id |-> 0, addr_type |-> 0, addr |-> Zeros(SizeofBdaddr),
     sid |-> 0, bid |-> U32(0), sync_state |-> 0, enc |-> 0,
     bad_code |-> Zeros(BT_BASS_BCAST_CODE_SIZE), num_subgroups |-> 0,
     subgroup_data |-> <<>>]

\* ---------------------------------------------- Broadcast Receive State codec

\* The subgroup loop of bass_build_bcast_src_from_notif: n subgroups pulled
\* from iov, each a 32-bit BIS_Sync, a metadata length and the metadata.
RECURSIVE PullSubgroups(_, _)
PullSubgroups(iov, n) ==
    IF n = 0 THEN [ok |-> TRUE, data |-> <<>>]
    ELSE
        LET bis == util_iov_pull_mem(iov, 4) IN
        IF ~bis.ok THEN [ok |-> FALSE, data |-> <<>>]
        ELSE
            LET ml == util_iov_pull_mem(bis.iov, 1) IN
            IF ~ml.ok THEN [ok |-> FALSE, data |-> <<>>]
            ELSE
                LET meta == IF ml.mem[1] = 0
                            THEN [ok |-> TRUE, mem |-> <<>>, iov |-> ml.iov]
                            ELSE util_iov_pull_mem(ml.iov, ml.mem[1])
                IN
                IF ~meta.ok THEN [ok |-> FALSE, data |-> <<>>]
                ELSE
                    LET rest == PullSubgroups(meta.iov, n - 1) IN
                    IF ~rest.ok THEN [ok |-> FALSE, data |-> <<>>]
                    ELSE [ok |-> TRUE,
                          data |-> <<[bis_sync |-> get_le32(bis.mem),
                                      pending_bis_sync |-> U32(0),
                                      meta_len |-> ml.mem[1],
                                      meta |-> meta.mem]>> \o rest.data]

\* bass_build_bcast_src_from_notif(bcast_src, value, length): rc is 0 and src
\* the updated source, or rc is -1 and src is bcast_src as it was.
bass_build_bcast_src_from_notif(bcast_src, value) ==
    LET fail == [rc |-> -1, src |-> bcast_src]
        id == util_iov_pull_mem(value, 1)
    IN
    IF ~id.ok THEN fail ELSE
    LET addr_type == util_iov_pull_mem(id.iov, 1) IN
    IF ~addr_type.ok THEN fail ELSE
    LET addr == util_iov_pull_mem(addr_type.iov, SizeofBdaddr) IN
    IF ~addr.ok THEN fail ELSE
    LET sid == util_iov_pull_mem(addr.iov, 1) IN
    IF ~sid.ok THEN fail ELSE
    LET bid == util_iov_pull_mem(sid.iov, 3) IN
    IF ~bid.ok THEN fail ELSE
    LET pa_sync_state == util_iov_pull_mem(bid.iov, 1) IN
    IF ~pa_sync_state.ok THEN fail ELSE
    LET enc == util_iov_pull_mem(pa_sync_state.iov, 1) IN
    IF ~enc.ok THEN fail ELSE
    LET bad_code == IF enc.mem[1] = BT_BASS_BIG_ENC_STATE_BAD_CODE
                    THEN util_iov_pull_mem(enc.iov, BT_BASS_BCAST_CODE_SIZE)
                    ELSE [ok |-> TRUE, mem |-> <<>>, iov |-> enc.iov]
    IN
    IF ~bad_code.ok THEN fail ELSE
    LET num_subgroups == util_iov_pull_mem(bad_code.iov, 1) IN
    IF ~num_subgroups.ok THEN fail ELSE
    LET subgroup_data == PullSubgroups(num_subgroups.iov, num_subgroups.mem[1])
    IN
    IF ~subgroup_data.ok THEN fail ELSE
    [rc |-> 0,
     src |-> [ptr |-> bcast_src.ptr,
              attr |-> bcast_src.attr,
              id |-> id.mem[1],
              addr_type |-> addr_type.mem[1],
              addr |-> addr.mem,
              sid |-> sid.mem[1],
              bid |-> get_le24(bid.mem),
              sync_state |-> pa_sync_state.mem[1],
              enc |-> enc.mem[1],
              bad_code |-> IF enc.mem[1] = BT_BASS_BIG_ENC_STATE_BAD_CODE
                           THEN bad_code.mem
                           ELSE Zeros(BT_BASS_BCAST_CODE_SIZE),
              num_subgroups |-> num_subgroups.mem[1],
              subgroup_data |-> subgroup_data.data]]

\* bass_build_bcast_src_from_read_rsp: the same parser.
bass_build_bcast_src_from_read_rsp(bcast_src, value) ==
    bass_build_bcast_src_from_notif(bcast_src, value)

\* The subgroup loop of bass_build_notif_from_bcast_src: bis_sync is pushed
\* as the four bytes it occupies in memory, then meta_len, then the metadata.
RECURSIVE PushSubgroups(_)
PushSubgroups(data) ==
    IF data = <<>> THEN <<>>
    ELSE HostBytes32(Head(data).bis_sync) \o <<Head(data).meta_len>>
         \o (IF Head(data).meta_len > 0 THEN Head(data).meta ELSE <<>>)
         \o PushSubgroups(Tail(data))

bass_build_notif_from_bcast_src_AlwaysCode(bcast_src) ==
    <<bcast_src.id, bcast_src.addr_type>> \o bcast_src.addr
    \o <<bcast_src.sid>>
    \o SubSeq(HostBytes32(bcast_src.bid), 1, 3)
    \o <<bcast_src.sync_state, bcast_src.enc>>
    \o bcast_src.bad_code
    \o <<bcast_src.num_subgroups>>
    \o PushSubgroups(bcast_src.subgroup_data)

\* bass_build_notif_from_bcast_src(bcast_src, notif_len): the bytes pushed.
\* bid is pushed as the first three bytes of the uint32_t in memory.
bass_build_notif_from_bcast_src(bcast_src) ==
    <<bcast_src.id, bcast_src.addr_type>> \o bcast_src.addr
    \o <<bcast_src.sid>>
    \o SubSeq(HostBytes32(bcast_src.bid), 1, 3)
    \o <<bcast_src.sync_state, bcast_src.enc>>
    \o (IF bcast_src.enc = BT_BASS_BIG_ENC_STATE_BAD_CODE
        THEN bcast_src.bad_code ELSE <<>>)
    \o <<bcast_src.num_subgroups>>
    \o PushSubgroups(bcast_src.subgroup_data)

\* bass_build_read_rsp_from_bcast_src: the same builder.
bass_build_read_rsp_from_bcast_src(bcast_src) ==
    bass_build_notif_from_bcast_src(bcast_src)

\* The length bass_build_notif_from_bcast_src allocates for the value.
RECURSIVE SumMetaLen(_)
SumMetaLen(data) ==
    IF data = <<>> THEN 0 ELSE Head(data).meta_len + SumMetaLen(Tail(data))

NotifLen(bcast_src) ==
    BT_BASS_BCAST_SRC_LEN
    + bcast_src.num_subgroups * BT_BASS_BCAST_SRC_SUBGROUP_LEN
    + (IF bcast_src.enc = BT_BASS_BIG_ENC_STATE_BAD_CODE
       THEN BT_BASS_BCAST_CODE_SIZE ELSE 0)
    + SumMetaLen(bcast_src.subgroup_data)

\* ------------------------------------------- Broadcast Audio Scan Control Point

\* bass_check_cp_command_subgroup_data_len(num_subgroups, iov): whether iov
\* holds num_subgroups subgroups, and what is left of iov after them.
RECURSIVE bass_check_cp_command_subgroup_data_len(_, _)
bass_check_cp_command_subgroup_data_len(num_subgroups, iov) ==
    IF num_subgroups = 0 THEN [ok |-> TRUE, iov |-> iov]
    ELSE
        LET bis_sync_state == util_iov_pull_mem(iov, 4) IN
        IF ~bis_sync_state.ok THEN [ok |-> FALSE, iov |-> iov]
        ELSE
            LET meta_len == util_iov_pull_mem(bis_sync_state.iov, 1) IN
            IF ~meta_len.ok THEN [ok |-> FALSE, iov |-> iov]
            ELSE
                LET meta == util_iov_pull_mem(meta_len.iov, meta_len.mem[1]) IN
                IF ~meta.ok THEN [ok |-> FALSE, iov |-> iov]
                ELSE bass_check_cp_command_subgroup_data_len(
                         num_subgroups - 1, meta.iov)

\* A length check that lets trailing bytes pass.
NoTrailingBytes_Unchecked(iov) == TRUE

\* The check a command with a defined opcode ends with: nothing may be left.
NoTrailingBytes(iov) == Len(iov) = 0

\* An opcode that is not known treated as a length error.
UnknownOpcodeLenOk_Rejected == FALSE

\* What bass_check_cp_command_len returns for an opcode it does not know.
UnknownOpcodeLenOk == TRUE

\* bass_check_cp_command_len(iov).
bass_check_cp_command_len(iov) ==
    LET hdr == util_iov_pull_mem(iov, SizeofHdr) IN
    IF ~hdr.ok THEN FALSE
    ELSE
        LET op == hdr.mem[1] IN
        CASE op = BT_BASS_ADD_SRC ->
               LET params == util_iov_pull_mem(hdr.iov, SizeofAddSrcParams) IN
               IF ~params.ok THEN FALSE
               ELSE LET sub == bass_check_cp_command_subgroup_data_len(
                                   params.mem[SizeofAddSrcParams], params.iov)
                    IN IF ~sub.ok THEN FALSE ELSE NoTrailingBytes(sub.iov)
          [] op = BT_BASS_MOD_SRC ->
               LET params == util_iov_pull_mem(hdr.iov, SizeofModSrcParams) IN
               IF ~params.ok THEN FALSE
               ELSE LET sub == bass_check_cp_command_subgroup_data_len(
                                   params.mem[SizeofModSrcParams], params.iov)
                    IN IF ~sub.ok THEN FALSE ELSE NoTrailingBytes(sub.iov)
          [] op = BT_BASS_SET_BCAST_CODE ->
               LET params == util_iov_pull_mem(hdr.iov,
                                               SizeofSetBcastCodeParams) IN
               IF ~params.ok THEN FALSE ELSE NoTrailingBytes(params.iov)
          [] op = BT_BASS_REMOVE_SRC ->
               LET params == util_iov_pull_mem(hdr.iov, SizeofRemoveSrcParams) IN
               IF ~params.ok THEN FALSE ELSE NoTrailingBytes(params.iov)
          [] op \in {BT_BASS_REMOTE_SCAN_STOPPED, BT_BASS_REMOTE_SCAN_STARTED} ->
               NoTrailingBytes(hdr.iov)
          [] OTHER -> UnknownOpcodeLenOk

\* A handler that drops a command of invalid length without answering it.
CpInvalidLenResults_Silent(opcode) == <<>>

\* What bass_bcast_audio_scan_cp_write does with a command of invalid length:
\* the error codes it hands to gatt_db_attribute_write_result.
CpInvalidLenResults(opcode) ==
    IF opcode = BT_ATT_OP_WRITE_REQ
    THEN <<BT_ERROR_WRITE_REQUEST_REJECTED>> ELSE <<>>

\* bass_bcast_audio_scan_cp_write(attrib, id, offset, value, len, opcode, att,
\* user_data) with the tracked sources srcs: the error codes handed to
\* gatt_db_attribute_write_result, in order, the tracked sources after, and
\* the Broadcast Receive State notifications sent.  No opcode has a handler:
\* a command of valid length is answered with Opcode Not Supported.
bass_bcast_audio_scan_cp_write_AddsUnchecked(value, opcode, srcs) ==
    IF ~bass_check_cp_command_len(value)
    THEN [results |-> CpInvalidLenResults(opcode), srcs |-> srcs,
          notifs |-> <<>>]
    ELSE IF value[1] = BT_BASS_ADD_SRC
    THEN [results |-> <<0>>, srcs |-> Append(srcs, NewSrc(Len(srcs) + 1)),
          notifs |-> <<Len(srcs) + 1>>]
    ELSE [results |-> <<BT_BASS_ERROR_OPCODE_NOT_SUPPORTED>>, srcs |-> srcs,
          notifs |-> <<>>]

bass_bcast_audio_scan_cp_write(value, opcode, srcs) ==
    IF ~bass_check_cp_command_len(value)
    THEN [results |-> CpInvalidLenResults(opcode), srcs |-> srcs,
          notifs |-> <<>>]
    ELSE [results |-> <<BT_BASS_ERROR_OPCODE_NOT_SUPPORTED>>, srcs |-> srcs,
          notifs |-> <<>>]

\* The server's completion of a write (write_complete_cb of gatt-server.c):
\* a Write Command is never answered; a Write Request is answered with an
\* Error Response carrying the error, or with a Write Response.
write_complete_cb(opcode, handle, err) ==
    IF opcode = BT_ATT_OP_WRITE_CMD THEN <<>>
    ELSE IF err # 0
         THEN <<<<BT_ATT_OP_ERROR_RSP, opcode, handle % 256, handle \div 256,
                  err>>>>
         ELSE <<<<BT_ATT_OP_WRITE_RSP>>>>

\* The PDUs the server sends for the results a write handler produced.
RECURSIVE WritePdus(_, _, _)
WritePdus(opcode, handle, results) ==
    IF results = <<>> THEN <<>>
    ELSE write_complete_cb(opcode, handle, Head(results))
         \o WritePdus(opcode, handle, Tail(results))

queue_find_attrib_First(srcs, attr) ==
    IF srcs = <<>> THEN <<>> ELSE <<Head(srcs)>>

\* bass_src_match_attrib through queue_find: the first source of the queue
\* bound to attr, as a sequence of at most one element.
queue_find_attrib(srcs, attr) ==
    LET hits == SelectSeq(srcs, LAMBDA e : e.attr = attr) IN
    IF hits = <<>> THEN <<>> ELSE <<Head(hits)>>

\* bass_bcast_recv_state_read(attrib, ...): the error and value handed to
\* gatt_db_attribute_read_result.
bass_bcast_recv_state_read(attrib, srcs) ==
    LET bcast_src == queue_find_attrib(srcs, attrib) IN
    IF bcast_src = <<>> THEN [err |-> 0, value |-> <<>>]
    ELSE [err |-> 0,
          value |-> bass_build_read_rsp_from_bcast_src(bcast_src[1])]

\* ---------------------------------------------------------- generated inputs

PeerAddr == <<242, 105, 139, 232, 7, 192>>
SampleCode == <<184, 3, 234, 198, 175, 187, 101, 162,
                90, 65, 241, 83, 5, 104, 2, 1>>

\* Sources a local server may be tracking when a command arrives.
SrcA ==
    [ptr |-> 1, attr |-> 1, id |-> 1, addr_type |-> 0, addr |-> PeerAddr, sid |-> 0,
     bid |-> U32(4660), sync_state |-> 0, enc |-> BT_BASS_BIG_ENC_STATE_NO_ENC,
     bad_code |-> Zeros(BT_BASS_BCAST_CODE_SIZE), num_subgroups |-> 0,
     subgroup_data |-> <<>>]
SrcB ==
    [ptr |-> 2, attr |-> 2, id |-> 2, addr_type |-> 0, addr |-> PeerAddr, sid |-> 1,
     bid |-> U32(1193046), sync_state |-> 2, enc |-> BT_BASS_BIG_ENC_STATE_BAD_CODE,
     bad_code |-> SampleCode, num_subgroups |-> 1,
     subgroup_data |-> <<[bis_sync |-> <<1, 0, 0, 0>>,
                          pending_bis_sync |-> U32(0),
                          meta_len |-> 0, meta |-> <<>>]>>]
LdbInits == {<<>>, <<SrcA>>, <<SrcA, SrcB>>}

SrcIds(srcs) == {srcs[i].id : i \in 1..Len(srcs)}

\* Source_IDs a generated command names: one a server may track, one it never does.
CmdIds == {1, 2, 5}

DefinedOps == {BT_BASS_REMOTE_SCAN_STOPPED, BT_BASS_REMOTE_SCAN_STARTED,
               BT_BASS_ADD_SRC, BT_BASS_MOD_SRC, BT_BASS_SET_BCAST_CODE,
               BT_BASS_REMOVE_SRC}
\* Opcode bytes outside the defined ones.
UndefinedOps == {6, 255}

\* Metadata lengths of the subgroups of a generated command.
MetaLenSeqs == UNION {[1..n -> 0..MaxMetaLen] : n \in 0..MaxSubgroups}

RECURSIVE SubgroupsCmd(_)
SubgroupsCmd(mls) ==
    IF mls = <<>> THEN <<>>
    ELSE <<1, 0, 0, 0, Head(mls)>> \o [i \in 1..Head(mls) |-> 170]
         \o SubgroupsCmd(Tail(mls))

AddSrcCmd(mls) ==
    <<BT_BASS_ADD_SRC, 0>> \o PeerAddr \o <<0, 52, 18, 0, 2, 16, 39, Len(mls)>>
    \o SubgroupsCmd(mls)
ModSrcCmd(id, mls) ==
    <<BT_BASS_MOD_SRC, id, 2, 16, 39, Len(mls)>> \o SubgroupsCmd(mls)
SetBcastCodeCmd(id) == <<BT_BASS_SET_BCAST_CODE, id>> \o SampleCode
RemoveSrcCmd(id) == <<BT_BASS_REMOVE_SRC, id>>

\* An Add Source command with the given address type, Advertising_SID and
\* PA_Sync, and one subgroup without metadata per BIS_Sync byte of bis.
AddSrcWith(addr_type, sid, pa_sync, bis) ==
    <<BT_BASS_ADD_SRC, addr_type>> \o PeerAddr
    \o <<sid, 245, 217, 131, pa_sync, 16, 39, Len(bis)>>
    \o [i \in 1..(5 * Len(bis)) |->
            IF i % 5 = 1 THEN bis[(i + 4) \div 5] ELSE 0]

\* Add Source commands of the right length with valid parameters.
ValidAddSrcCmds == {AddSrcWith(0, 0, 2, <<0>>), AddSrcWith(0, 0, 2, <<1, 2>>)}

\* Add Source commands of the right length carrying a reserved PA_Sync, a
\* reserved address type, an Advertising_SID out of range, or the same BIS
\* index in two subgroups.
InvalidAddSrcCmds ==
    {AddSrcWith(0, 0, 6, <<0, 0>>), AddSrcWith(5, 0, 2, <<0, 0>>),
     AddSrcWith(0, 63, 2, <<0, 0>>), AddSrcWith(0, 0, 2, <<1, 1>>)}

\* Commands of exactly the length their opcode requires.
WellFormedCmds ==
    {<<BT_BASS_REMOTE_SCAN_STOPPED>>, <<BT_BASS_REMOTE_SCAN_STARTED>>}
    \cup {AddSrcCmd(mls) : mls \in MetaLenSeqs}
    \cup {ModSrcCmd(id, mls) : id \in CmdIds, mls \in MetaLenSeqs}
    \cup {SetBcastCodeCmd(id) : id \in CmdIds}
    \cup {RemoveSrcCmd(id) : id \in CmdIds}

\* A well-formed command with -d trailing bytes cut off or d bytes appended.
Damaged(wf, d) ==
    IF d <= 0 THEN SubSeq(wf, 1, Len(wf) + d) ELSE wf \o [i \in 1..d |-> 0]
Shape(d) == IF d < 0 THEN "short" ELSE IF d > 0 THEN "long" ELSE "exact"

\* What may follow an undefined opcode byte.
UndefinedTails == {<<>>, <<1>>, <<1, 143, 19>>}

WriteOpcodes == {BT_ATT_OP_WRITE_REQ, BT_ATT_OP_WRITE_CMD}

RecvStateAttrs == 1..NUM_BCAST_RECV_STATES

\* ------------------------------------------------------- the server's actions

NoWrite ==
    [value |-> <<>>, opcode |-> 0, shape |-> "none", results |-> <<>>,
     pdus |-> <<>>, notifs |-> <<>>, pre |-> <<>>]
NoRead == [attr |-> 0, err |-> 0, value |-> <<>>]
NoRx == [kind |-> "none", attr |-> 0, value |-> <<>>, shape |-> "none",
         pre |-> <<>>, dangling |-> FALSE]
NoCodec == [phase |-> "idle", src |-> NewSrc(0), wire |-> <<>>, rc |-> 0,
            out |-> NewSrc(0)]

ClientIdle ==
    /\ rdb_srcs = <<>>
    /\ rd_pending = <<>>
    /\ notify_reg = {}
    /\ rx = NoRx

\* The event loop runs one handler at a time: cp and srv_rd hold what the
\* handler of this turn was given and did, and are cleared when the turn ends.
ServerIdle == cp = NoWrite /\ srv_rd = NoRead

NoCall == [op |-> "none", ok |-> TRUE, sent |-> 0, busy |-> FALSE]
NoDis == [done |-> FALSE, reason |-> "none", wire_len |-> 0, failed |-> {},
          dropped |-> 0]
NoDisc == [step |-> "idle", page |-> 0, services |-> FALSE, chars |-> FALSE,
           log |-> <<>>, ready |-> <<>>]

\* A new connection: nothing pending, nothing sent, no callback invoked.
AttInit ==
    /\ att = [state |-> "connected", pending_req |-> 0, pending_ind |-> 0]
    /\ att_wire = <<>>
    /\ att_cb = <<>>
    /\ ind_queue = <<>>
    /\ att_call = NoCall
    /\ att_dis = NoDis
    /\ cli = "live"

DiscInit == disc = NoDisc

BT_ATT_DEFAULT_LE_MTU == 23

\* Largest MTU the local server was created with (bt_gatt_server_new).
ServerMaxMtus == {BT_ATT_DEFAULT_LE_MTU, 64, 185}

\* MTU the client was created with (bt_gatt_client_new).
ClientMtus == {BT_ATT_DEFAULT_LE_MTU, 64, 100}

\* Both sides start at the default MTU; no exchange has taken place.
MtuInit(server_max) ==
    mtu = [state |-> "idle", server_max |-> server_max, client_rx |-> 0,
           rsp |-> 0, client |-> BT_ATT_DEFAULT_LE_MTU,
           server |-> BT_ATT_DEFAULT_LE_MTU]

NoCccCall ==
    [op |-> "none", handle |-> 0, offset |-> 0, len |-> 0, val |-> 0,
     pre |-> <<>>, ecode |-> 0, results |-> 0, sent |-> 0]

\* A test server starts with no CCC state recorded (queue_new).
CccInit(harness) ==
    ccc = [harness |-> harness, states |-> <<>>, call |-> NoCccCall]

\* The server of the unit tests: bt_gatt_server_new(db, att, 64, 0).
\* The gatt client without a reliable-write session, as bt_gatt_client_new
\* leaves it.
NoGattSession == [session |-> 0, queued |-> 0, next_id |-> 1]

NoRwCall ==
    [op |-> "none", session_id |-> 0, wraps |-> 0, cli |-> "live",
     pre |-> [reliable_session_id |-> 0, gatt |-> NoGattSession],
     sent |-> 0, outcome |-> "none"]

\* client_create: the structure is zeroed, so no session is ongoing.
RwInit ==
    rw = [reliable_session_id |-> 0, gatt |-> NoGattSession,
          crashed |-> FALSE, call |-> NoRwCall]

NoMicsCall == [req |-> <<>>, pdus |-> <<>>, pre_mute |-> 0, pre_ccc |-> 0]

\* The microphone control server as bt_micp_new leaves it: the Mute
\* characteristic holds mute, no CCC value has been written, no Write
\* Request has been accepted, no notification has been sent.
MicsInit(mute) ==
    mics = [mute |-> mute, ccc |-> 0, written |-> FALSE, last |-> 0,
            notified |-> 0, call |-> NoMicsCall]

\* The client's cache of a remote database db before discovery.
NewCache(db, per_page) ==
    [db |-> db, per_page |-> per_page, step |-> "idle", services |-> <<>>,
     si |-> 0, from |-> 0, chars |-> <<>>, ci |-> 0, descs |-> <<>>]

CacheInit == cache = NewCache(<<"svc">>, 1)

ASHA_STOPPED == 0

ASHA_STARTING == 1

ASHA_STARTED == 2

ASHA_STOPPING == 3

NoAshaCall ==
    [op |-> "none", pre_state |-> ASHA_STOPPED, ret |-> 0, status |-> 0,
     success |-> TRUE, cmd |-> "none"]

\* asha_device_new: the device zeroed, no control point write outstanding.
AshaInit ==
    asha = [state |-> ASHA_STOPPED, resume_id |-> 0, cb |-> FALSE, fd |-> 0,
            acp |-> <<>>, call |-> NoAshaCall]

\* The sessions the callers of bt_csip_attach and bt_csip_detach hold.
CsipSessions == {1, 2}

NoCsipCall ==
    [op |-> "none", session |-> 0, client |-> "none", ret |-> TRUE,
     pre |-> <<>>, pre_client |-> FALSE, pre_cbs |-> <<>>, pre_refs |-> 0]

\* The static sessions and csip_cbs queues are NULL, which the queue
\* functions treat as empty, and the static id of bt_csip_register is 0.
\* state is "live" for the sessions that exist from the start, each as
\* bt_csip_new returns it: one reference, csip->client NULL.
CsipStart(state) ==
    [sessions |-> <<>>, client |-> [s \in CsipSessions |-> FALSE],
     state |-> [s \in CsipSessions |-> state],
     ref_count |-> [s \in CsipSessions |-> IF state = "live" THEN 1 ELSE 0],
     cbs |-> <<>>, id |-> 0, invoked |-> <<>>, crashed |-> FALSE,
     call |-> NoCsipCall]

CsipInit == csip = CsipStart("live")

SvcInit == CsipInit /\ MicsInit(1) /\ CacheInit /\ AshaInit

GattInit == MtuInit(64) /\ CccInit("bap") /\ RwInit /\ SvcInit

\* A write of value to the control point, delivered with ATT opcode opcode.
CpWriteValue(value, opcode, shape) ==
    LET r == bass_bcast_audio_scan_cp_write(value, opcode, ldb_srcs) IN
    /\ ServerIdle
    /\ cp' = [value |-> value, opcode |-> opcode, shape |-> shape,
              results |-> r.results,
              pdus |-> WritePdus(opcode, CP_HANDLE, r.results),
              notifs |-> r.notifs, pre |-> ldb_srcs]
    /\ ldb_srcs' = r.srcs
    /\ UNCHANGED <<gattVars, attVars, discVars, host_be, rdb_srcs, rd_pending, notify_reg, rx, srv_rd,
                   codec>>

\* A command with a defined opcode: well formed, cut short or with bytes added.
CpWriteDefined ==
    \E wf \in WellFormedCmds, opcode \in WriteOpcodes :
        \E d \in (0 - Len(wf))..MaxExtra :
            CpWriteValue(Damaged(wf, d), opcode, Shape(d))

\* An Add Source command of the right length, its parameters valid or not.
CpWriteAddSrc ==
    \E wf \in ValidAddSrcCmds \cup InvalidAddSrcCmds, opcode \in WriteOpcodes :
        CpWriteValue(wf, opcode, "exact")

\* A command whose opcode byte is not a defined one.
CpWriteUndefined ==
    \E op \in UndefinedOps, tail \in UndefinedTails, opcode \in WriteOpcodes :
        CpWriteValue(<<op>> \o tail, opcode, "undefined")

\* A read of a Broadcast Receive State characteristic of the local server.
SrvRecvStateRead ==
    \E attr \in RecvStateAttrs :
        LET r == bass_bcast_recv_state_read(attr, ldb_srcs) IN
        /\ ServerIdle
        /\ srv_rd' = [attr |-> attr, err |-> r.err, value |-> r.value]
        /\ UNCHANGED <<gattVars, attVars, discVars, host_be, ldb_srcs, rdb_srcs, cp, rd_pending, notify_reg,
                       rx, codec>>

\* The handler has returned and its response has left: the next turn begins.
ServerTurnEnds ==
    /\ ~ServerIdle
    /\ cp' = NoWrite
    /\ srv_rd' = NoRead
    /\ UNCHANGED <<gattVars, attVars, discVars, host_be, ldb_srcs, rdb_srcs, rd_pending, notify_reg, rx,
                   codec>>

InitServer ==
    /\ GattInit
    /\ AttInit
    /\ DiscInit
    /\ host_be \in BOOLEAN
    /\ ldb_srcs \in LdbInits
    /\ cp = NoWrite
    /\ srv_rd = NoRead
    /\ codec = NoCodec
    /\ ClientIdle

NextServer ==
    \/ CpWriteDefined
    \/ CpWriteAddSrc
    \/ CpWriteUndefined
    \/ SrvRecvStateRead
    \/ ServerTurnEnds

\* The server side of the service: control point writes and state reads.
SpecServer == InitServer /\ [][NextServer]_vars

\* ------------------------------------------------ control point properties

ErrorRsp(opcode, err) ==
    <<BT_ATT_OP_ERROR_RSP, opcode, CP_HANDLE % 256, CP_HANDLE \div 256, err>>

CpWritten == cp.shape # "none"
CpHasDefinedOp == Len(cp.value) >= 1 /\ cp.value[1] \in DefinedOps
CpUnchanged == ldb_srcs = cp.pre /\ cp.notifs = <<>>

\* C1: a Write Request carrying a command with a defined opcode whose length
\* is not exactly the length the opcode requires (cut short, or with trailing
\* bytes) is answered with Write Request Rejected (0xFC) and changes neither
\* the tracked sources nor any other state of the service.
C1_LenMismatchRejected ==
    (/\ CpWritten
     /\ CpHasDefinedOp
     /\ cp.shape \in {"short", "long"}
     /\ cp.opcode = BT_ATT_OP_WRITE_REQ)
    => /\ cp.pdus = <<ErrorRsp(BT_ATT_OP_WRITE_REQ,
                               BT_ERROR_WRITE_REQUEST_REJECTED)>>
       /\ CpUnchanged

\* A Set Broadcast_Code one byte short of its 17-byte payload, naming a tracked
\* source, has been rejected.
C1_Witness ==
    /\ cp.opcode = BT_ATT_OP_WRITE_REQ
    /\ cp.shape = "short"
    /\ Len(cp.value) = SizeofHdr + SizeofSetBcastCodeParams - 1
    /\ cp.value[1] = BT_BASS_SET_BCAST_CODE
    /\ cp.value[2] \in SrcIds(cp.pre)
    /\ cp.pdus # <<>>

\* C2: a Write Request carrying a correctly sized Set Broadcast_Code, Modify
\* Source or Remove Source whose Source_ID matches no tracked source is
\* answered with Invalid Source ID (0x81) and leaves the sources unchanged.
C2_InvalidSourceId ==
    (/\ CpWritten
     /\ cp.shape = "exact"
     /\ cp.value[1] \in {BT_BASS_SET_BCAST_CODE, BT_BASS_MOD_SRC,
                         BT_BASS_REMOVE_SRC}
     /\ cp.value[2] \notin SrcIds(cp.pre)
     /\ cp.opcode = BT_ATT_OP_WRITE_REQ)
    => /\ cp.pdus = <<ErrorRsp(BT_ATT_OP_WRITE_REQ,
                               BT_BASS_ERROR_INVALID_SOURCE_ID)>>
       /\ CpUnchanged

\* C3: a Write Request whose opcode byte is not one of the six defined opcodes
\* is answered with Opcode Not Supported (0x80), whatever follows the opcode,
\* and changes no state of the service.
C3_OpcodeNotSupported ==
    (/\ CpWritten
     /\ Len(cp.value) >= 1
     /\ cp.value[1] \notin DefinedOps
     /\ cp.opcode = BT_ATT_OP_WRITE_REQ)
    => /\ cp.pdus = <<ErrorRsp(BT_ATT_OP_WRITE_REQ,
                               BT_BASS_ERROR_OPCODE_NOT_SUPPORTED)>>
       /\ CpUnchanged

\* An undefined opcode followed by further bytes has been answered.
C3_Witness ==
    /\ cp.opcode = BT_ATT_OP_WRITE_REQ
    /\ Len(cp.value) > 1
    /\ cp.value[1] = 255
    /\ cp.pdus # <<>>

\* C6: a control point write delivered as a Write Command produces neither a
\* Write Response nor an Error Response and no notification, whatever its
\* opcode, length or Source_ID; a Write Request is answered with exactly one
\* Write Response or Error Response.
C6_CommandSilentRequestAnswered ==
    CpWritten =>
        /\ cp.opcode = BT_ATT_OP_WRITE_CMD
               => cp.pdus = <<>> /\ cp.notifs = <<>>
        /\ cp.opcode = BT_ATT_OP_WRITE_REQ
               => /\ Len(cp.pdus) = 1
                  /\ cp.pdus[1][1] \in {BT_ATT_OP_ERROR_RSP, BT_ATT_OP_WRITE_RSP}

\* A correctly sized Remove Source naming an unknown Source_ID has arrived as
\* a Write Command and the handler has run.
C6_Witness ==
    /\ cp.opcode = BT_ATT_OP_WRITE_CMD
    /\ cp.shape = "exact"
    /\ cp.value[1] = BT_BASS_REMOVE_SRC
    /\ cp.value[2] \notin SrcIds(cp.pre)
    /\ cp.results # <<>>

\* ------------------------------------------ the client's tracking of sources

FindAttrib_Never(srcs, attr) == 0

\* Position of the first source of the queue bound to attr (queue_find with
\* bass_src_match_attrib), 0 when there is none.
FindAttrib(srcs, attr) ==
    IF \E i \in 1..Len(srcs) : srcs[i].attr = attr
    THEN CHOOSE i \in 1..Len(srcs) :
             /\ srcs[i].attr = attr
             /\ \A j \in 1..(i - 1) : srcs[j].attr # attr
    ELSE 0

\* Position of the source allocated at ptr, 0 when no queued source is.
FindPtr(srcs, ptr) ==
    IF \E i \in 1..Len(srcs) : srcs[i].ptr = ptr
    THEN CHOOSE i \in 1..Len(srcs) :
             /\ srcs[i].ptr = ptr
             /\ \A j \in 1..(i - 1) : srcs[j].ptr # ptr
    ELSE 0

RemoveAt(srcs, i) ==
    SubSeq(srcs, 1, i - 1) \o SubSeq(srcs, i + 1, Len(srcs))

RemoveAndFree_Keeps(srcs, ptr) == srcs

\* queue_remove(queue, bcast_src) followed by bass_bcast_src_free(bcast_src).
RemoveAndFree(srcs, ptr) ==
    IF FindPtr(srcs, ptr) = 0 THEN srcs ELSE RemoveAt(srcs, FindPtr(srcs, ptr))

\* What read_bcast_recv_state does with a value that does not parse.
ReadParseFailed(srcs, ptr) == RemoveAndFree(srcs, ptr)

\* read_bcast_recv_state(success, att_ecode, value, length, user_data) for a
\* source user_data that is still allocated: the tracked sources after.
read_bcast_recv_state(srcs, ptr, success, value) ==
    IF ~success THEN srcs
    ELSE IF Len(value) = 0 THEN RemoveAndFree(srcs, ptr)
    ELSE LET i == FindPtr(srcs, ptr)
             r == bass_build_bcast_src_from_read_rsp(srcs[i], value)
         IN IF r.rc # 0 THEN ReadParseFailed(srcs, ptr)
            ELSE [srcs EXCEPT ![i] = r.src]

\* The same callback run on a source that has been freed: it reads, and may
\* unlink and free, memory it no longer owns.  The queue is left alone, or
\* loses whichever record now lies at that address.
ReadOnFreed(srcs) ==
    {srcs} \cup {RemoveAt(srcs, i) : i \in 1..Len(srcs)}

\* bcast_recv_state_notify(bap, value_handle, value, length, user_data) for
\* the characteristic attr; fresh is the address malloc returns.
bcast_recv_state_notify(srcs, attr, value, fresh) ==
    LET found == FindAttrib(srcs, attr) IN
    IF found = 0
    THEN LET r == bass_build_bcast_src_from_notif(
                      [NewSrc(attr) EXCEPT !.ptr = fresh], value)
         IN IF r.rc # 0 THEN srcs ELSE Append(srcs, r.src)
    ELSE [srcs EXCEPT ![found] =
              bass_build_bcast_src_from_notif(srcs[found], value).src]

\* An address no tracked source lies at and no outstanding read refers to.
UsedPtrs ==
    {rdb_srcs[i].ptr : i \in 1..Len(rdb_srcs)}
    \cup {rd_pending[i].ptr : i \in 1..Len(rd_pending)}
FreshPtr ==
    CHOOSE p \in 1..(Cardinality(UsedPtrs) + 1) :
        /\ p \notin UsedPtrs
        /\ \A q \in 1..(p - 1) : q \in UsedPtrs

\* The value a peer sends for a source: the wire format, little-endian.
RECURSIVE WireSubgroups(_)
WireSubgroups(data) ==
    IF data = <<>> THEN <<>>
    ELSE Head(data).bis_sync \o <<Head(data).meta_len>> \o Head(data).meta
         \o WireSubgroups(Tail(data))
WireValue(src) ==
    <<src.id, src.addr_type>> \o src.addr
    \o <<src.sid, src.bid[1], src.bid[2], src.bid[3], src.sync_state,
         src.enc>>
    \o (IF src.enc = BT_BASS_BIG_ENC_STATE_BAD_CODE THEN src.bad_code ELSE <<>>)
    \o <<src.num_subgroups>> \o WireSubgroups(src.subgroup_data)

\* Sources a peer reports.
RxSrcs ==
    {SrcA,
     [SrcB EXCEPT !.subgroup_data =
          <<[bis_sync |-> <<255, 255, 255, 127>>,
             pending_bis_sync |-> U32(0),
             meta_len |-> 1, meta |-> <<170>>]>>]}

\* The values a peer sends: complete, cut short, or empty.
RxValues ==
    {[value |-> <<>>, shape |-> "empty"]}
    \cup {[value |-> WireValue(r), shape |-> "full"] : r \in RxSrcs}
    \cup UNION {{[value |-> SubSeq(WireValue(r), 1, n), shape |-> "truncated"] :
                     n \in 1..(Len(WireValue(r)) - 1)} : r \in RxSrcs}

ClientTurnIdle == rx = NoRx

\* foreach_bass_char(attr, user_data) for a Broadcast Receive State
\* characteristic: the source is found or created and queued, its value is
\* read with the source as user data, and notifications are registered.
foreach_bass_char(attr) ==
    /\ ClientTurnIdle
    /\ Len(rd_pending) < MaxPendingReads
    /\ LET found == FindAttrib(rdb_srcs, attr)
           bcast_src == IF found = 0
                        THEN [NewSrc(attr) EXCEPT !.ptr = FreshPtr]
                        ELSE rdb_srcs[found]
       IN /\ rdb_srcs' = IF found = 0 THEN Append(rdb_srcs, bcast_src)
                         ELSE rdb_srcs
          /\ rd_pending' = Append(rd_pending,
                                  [attr |-> attr, ptr |-> bcast_src.ptr])
    /\ notify_reg' = notify_reg \cup {attr}
    /\ UNCHANGED <<gattVars, attVars, discVars, host_be, ldb_srcs, cp, rx, srv_rd, codec>>

\* A pass of foreach_bass_service over the service reaches a characteristic.
DiscoverRecvState == \E attr \in RecvStateAttrs : foreach_bass_char(attr)

\* The oldest outstanding read completes and read_bcast_recv_state runs.
ReadCompletes ==
    /\ ClientTurnIdle
    /\ rd_pending # <<>>
    /\ \E success \in BOOLEAN, v \in RxValues :
        LET rd == Head(rd_pending)
            live == FindPtr(rdb_srcs, rd.ptr) # 0
        IN /\ success \/ v.shape = "empty"
           /\ rdb_srcs' \in
                  (IF live
                   THEN {read_bcast_recv_state(rdb_srcs, rd.ptr, success,
                                               v.value)}
                   ELSE ReadOnFreed(rdb_srcs))
           /\ rx' = [kind |-> IF success THEN "read" ELSE "read_error",
                     attr |-> rd.attr, value |-> v.value, shape |-> v.shape,
                     pre |-> rdb_srcs, dangling |-> ~live]
    /\ rd_pending' = Tail(rd_pending)
    /\ UNCHANGED <<gattVars, attVars, discVars, host_be, ldb_srcs, cp, notify_reg, srv_rd, codec>>

\* A notification of a registered characteristic arrives.
NotifyArrives ==
    /\ ClientTurnIdle
    /\ \E attr \in notify_reg, v \in RxValues :
        /\ rdb_srcs' = bcast_recv_state_notify(rdb_srcs, attr, v.value,
                                               FreshPtr)
        /\ rx' = [kind |-> "notify", attr |-> attr, value |-> v.value,
                  shape |-> v.shape, pre |-> rdb_srcs, dangling |-> FALSE]
    /\ UNCHANGED <<gattVars, attVars, discVars, host_be, ldb_srcs, cp, rd_pending, notify_reg, srv_rd,
                   codec>>

\* The callback has returned: the next turn of the event loop begins.
ClientTurnEnds ==
    /\ ~ClientTurnIdle
    /\ rx' = NoRx
    /\ UNCHANGED <<gattVars, attVars, discVars, host_be, ldb_srcs, rdb_srcs, cp, rd_pending, notify_reg,
                   srv_rd, codec>>

\* The client only decodes, which reads the wire format byte by byte and
\* does not depend on the byte order of the host.
InitClient ==
    /\ GattInit
    /\ AttInit
    /\ DiscInit
    /\ host_be = FALSE
    /\ ldb_srcs = <<>>
    /\ cp = NoWrite
    /\ srv_rd = NoRead
    /\ codec = NoCodec
    /\ ClientIdle

NextClient ==
    DiscoverRecvState \/ ReadCompletes \/ NotifyArrives \/ ClientTurnEnds

\* The client side of the service: discovery, read responses, notifications.
SpecClient == InitClient /\ [][NextClient]_vars

\* --------------------------------------------------- receive state properties

\* C4: when a Broadcast Receive State value that is cut short, so that it
\* cannot be parsed, arrives in a notification or in a read response, the
\* tracked sources are what they were: the same members with the same fields
\* and subgroups.
C4_TruncatedLeavesSources ==
    (rx.kind \in {"notify", "read"} /\ rx.shape = "truncated" /\ ~rx.dangling)
    => rdb_srcs = rx.pre

\* ------------------------------------------------- encoding then decoding

\* Subgroups of a generated record: no BIS, BIS index 1, all 31 BIS indices;
\* metadata of every length up to MaxMetaLen.
SubgroupSamples ==
    {[bis_sync |-> b, pending_bis_sync |-> U32(0), meta_len |-> n,
      meta |-> [i \in 1..n |-> 170 + i]] :
         b \in {<<0, 0, 0, 0>>, <<1, 0, 0, 0>>, <<255, 255, 255, 127>>},
         n \in 0..MaxMetaLen}
SubgroupSeqs == UNION {[1..n -> SubgroupSamples] : n \in 0..MaxSubgroups}

\* Records a source structure can hold: the bad code is zero unless the
\* encryption state is Bad Code, as the structure is zeroed when allocated
\* and the code is cleared whenever another state is stored.
CodecSrcs ==
    {[ptr |-> 1, attr |-> 1, id |-> 1, addr_type |-> 1, addr |-> PeerAddr,
      sid |-> 3, bid |-> U32(bid), sync_state |-> 2, enc |-> enc,
      bad_code |-> IF enc = BT_BASS_BIG_ENC_STATE_BAD_CODE
                   THEN SampleCode ELSE Zeros(BT_BASS_BCAST_CODE_SIZE),
      num_subgroups |-> Len(sg), subgroup_data |-> sg] :
         bid \in {0, 1193046},
         enc \in {BT_BASS_BIG_ENC_STATE_NO_ENC, BT_BASS_BIG_ENC_STATE_BCODE_REQ,
                  BT_BASS_BIG_ENC_STATE_DEC, BT_BASS_BIG_ENC_STATE_BAD_CODE},
         sg \in SubgroupSeqs}

\* The record is encoded as a notification or read response value.
CodecEncode ==
    /\ codec.phase = "record"
    /\ codec' = [codec EXCEPT !.phase = "encoded",
                              !.wire = bass_build_notif_from_bcast_src(codec.src)]
    /\ UNCHANGED <<gattVars, attVars, discVars, host_be, ldb_srcs, rdb_srcs, cp, rd_pending, notify_reg, rx,
                   srv_rd>>

\* The value is decoded into a source structure: a new one, or one that
\* holds an earlier state.
CodecDecode ==
    /\ codec.phase = "encoded"
    /\ \E into \in {NewSrc(1), SrcB} :
        LET r == bass_build_bcast_src_from_notif(into, codec.wire) IN
        codec' = [codec EXCEPT !.phase = "decoded", !.rc = r.rc,
                               !.out = r.src]
    /\ UNCHANGED <<gattVars, attVars, discVars, host_be, ldb_srcs, rdb_srcs, cp, rd_pending, notify_reg, rx,
                   srv_rd>>

InitCodec ==
    /\ GattInit
    /\ AttInit
    /\ DiscInit
    /\ host_be \in BOOLEAN
    /\ ldb_srcs = <<>>
    /\ cp = NoWrite
    /\ srv_rd = NoRead
    /\ ClientIdle
    /\ \E src \in CodecSrcs :
           codec = [phase |-> "record", src |-> src, wire |-> <<>>, rc |-> 0,
                    out |-> NewSrc(0)]

NextCodec == CodecEncode \/ CodecDecode

\* A record is encoded by the builder, then decoded by the parser.
SpecCodec == InitCodec /\ [][NextCodec]_vars

SameSource(a, b) ==
    /\ a.id = b.id
    /\ a.addr_type = b.addr_type
    /\ a.addr = b.addr
    /\ a.sid = b.sid
    /\ a.bid = b.bid
    /\ a.sync_state = b.sync_state
    /\ a.enc = b.enc
    /\ a.bad_code = b.bad_code
    /\ a.num_subgroups = b.num_subgroups
    /\ Len(a.subgroup_data) = Len(b.subgroup_data)
    /\ \A i \in 1..Len(a.subgroup_data) :
           /\ a.subgroup_data[i].bis_sync = b.subgroup_data[i].bis_sync
           /\ a.subgroup_data[i].meta_len = b.subgroup_data[i].meta_len
           /\ a.subgroup_data[i].meta = b.subgroup_data[i].meta

\* C5: encoding a source record and decoding the result yields a record with
\* the same source id, address type, address, advertising SID, broadcast id,
\* PA sync state, encryption state, bad code, subgroup count and, for every
\* subgroup, BIS sync, metadata length and metadata.
C5_RoundTrip ==
    codec.phase = "decoded" => codec.rc = 0 /\ SameSource(codec.out, codec.src)

\* The same round trip on a build for a little-endian host only.
RoundTripLittleEndian ==
    (codec.phase = "decoded" /\ ~host_be)
    => codec.rc = 0 /\ SameSource(codec.out, codec.src)


----------------------------------------------------------------------------
\* The ATT transport session.  One connection carries at most one client
\* request awaiting its response and at most one indication awaiting its
\* confirmation; further indications wait in a queue.

MaxRequests == 2
MaxIndications == 2

Ids(log, kind) ==
    {log[i].id : i \in {j \in DOMAIN log : log[j].kind = kind}}

ReqSent == Ids(att_wire, "req")
ReqDone == Ids(att_cb, "rsp")
Outstanding == ReqSent \ ReqDone
IndSent == Ids(att_wire, "ind")
IndConfirmed == Ids(att_cb, "conf")
InFlight == IndSent \ IndConfirmed

NextReqId == Cardinality(ReqSent) + 1
NextIndId == Cardinality(IndSent) + Len(ind_queue) + att_dis.dropped + 1

RequestAllowed_Connected(a) == a.state = "connected"

\* send_request refuses a request while another one awaits its response.
RequestAllowed(a) == a.state = "connected" /\ a.pending_req = 0

IndicationMayGo_Always(a) == TRUE

\* The single in-flight-indication slot is free.
IndicationMayGo(a) == a.pending_ind = 0

\* The writer takes the head of the indication queue when the slot is free.
WakeupWriter(a, queue, wire) ==
    IF a.state = "connected" /\ queue # <<>> /\ IndicationMayGo(a)
    THEN [att |-> [a EXCEPT !.pending_ind = Head(queue)],
          queue |-> Tail(queue),
          wire |-> Append(wire, [kind |-> "ind", id |-> Head(queue)]),
          sent |-> 1]
    ELSE [att |-> a, queue |-> queue, wire |-> wire, sent |-> 0]

\* send_request(opcode, payload, response_cb)
send_request ==
    /\ NextReqId <= MaxRequests
    /\ IF RequestAllowed(att)
       THEN /\ att' = [att EXCEPT !.pending_req = NextReqId]
            /\ att_wire' = Append(att_wire, [kind |-> "req", id |-> NextReqId])
            /\ att_call' = [op |-> "send_request", ok |-> TRUE, sent |-> 1,
                            busy |-> FALSE]
       ELSE /\ att_call' = [op |-> "send_request", ok |-> FALSE, sent |-> 0,
                            busy |-> att.pending_req # 0]
            /\ UNCHANGED <<att, att_wire>>
    /\ UNCHANGED <<att_cb, ind_queue, att_dis, cli>>
    /\ UNCHANGED <<gattVars, discVars, host_be, ldb_srcs, rdb_srcs, cp, rd_pending,
                   notify_reg, rx, srv_rd, codec>>

\* A response or an error response completes the outstanding request.
RecvResponse ==
    /\ att.state = "connected"
    /\ att.pending_req # 0
    /\ \E ok \in BOOLEAN :
           att_cb' = Append(att_cb, [kind |-> "rsp", id |-> att.pending_req,
                                     ok |-> ok,
                                     err |-> IF ok THEN "none" ELSE "att"])
    /\ att' = [att EXCEPT !.pending_req = 0]
    /\ att_call' = NoCall
    /\ UNCHANGED <<att_wire, ind_queue, att_dis, cli>>
    /\ UNCHANGED <<gattVars, discVars, host_be, ldb_srcs, rdb_srcs, cp, rd_pending,
                   notify_reg, rx, srv_rd, codec>>

\* send_indication(handle, value, confirm_cb)
send_indication ==
    /\ NextIndId <= MaxIndications
    /\ IF att.state = "connected"
       THEN LET w == WakeupWriter(att, Append(ind_queue, NextIndId), att_wire)
            IN /\ att' = w.att
               /\ ind_queue' = w.queue
               /\ att_wire' = w.wire
               /\ att_call' = [op |-> "send_indication", ok |-> TRUE,
                               sent |-> w.sent, busy |-> att.pending_ind # 0]
       ELSE /\ att_call' = [op |-> "send_indication", ok |-> FALSE,
                            sent |-> 0, busy |-> FALSE]
            /\ UNCHANGED <<att, ind_queue, att_wire>>
    /\ UNCHANGED <<att_cb, att_dis, cli>>
    /\ UNCHANGED <<gattVars, discVars, host_be, ldb_srcs, rdb_srcs, cp, rd_pending,
                   notify_reg, rx, srv_rd, codec>>

\* A confirmation frees the slot; the next queued indication is sent.
RecvConfirmation ==
    /\ att.state = "connected"
    /\ att.pending_ind # 0
    /\ att_cb' = Append(att_cb, [kind |-> "conf", id |-> att.pending_ind,
                                 ok |-> TRUE, err |-> "none"])
    /\ LET w == WakeupWriter([att EXCEPT !.pending_ind = 0], ind_queue,
                             att_wire)
       IN /\ att' = w.att
          /\ ind_queue' = w.queue
          /\ att_wire' = w.wire
    /\ att_call' = NoCall
    /\ UNCHANGED <<att_dis, cli>>
    /\ UNCHANGED <<gattVars, discVars, host_be, ldb_srcs, rdb_srcs, cp, rd_pending,
                   notify_reg, rx, srv_rd, codec>>

client_destroy(c) == "null"

\* The handler btgatt-client registers with bt_att_register_disconnect.
att_disconnect_cb(c) == client_destroy(c)

FailPending_Forgotten(a) == <<>>

\* Every request still awaiting its response is failed as "disconnected".
FailPending(a) ==
    IF a.pending_req # 0
    THEN <<[kind |-> "rsp", id |-> a.pending_req, ok |-> FALSE,
            err |-> "disconnected"]>>
    ELSE <<>>

\* The disconnect procedure: fail the pending requests, discard the
\* indications, then run the disconnect handler.
Disconnect(reason) ==
    /\ att' = [state |-> "disconnected", pending_req |-> 0, pending_ind |-> 0]
    /\ att_cb' = att_cb \o FailPending(att)
                        \o <<[kind |-> "disconnect", id |-> 0, ok |-> TRUE,
                              err |-> "none"]>>
    /\ ind_queue' = <<>>
    /\ att_dis' = [done |-> TRUE, reason |-> reason,
                   wire_len |-> Len(att_wire),
                   failed |-> {att.pending_req} \ {0},
                   dropped |-> Len(ind_queue)]
    /\ cli' = att_disconnect_cb(cli)
    /\ att_call' = NoCall
    /\ UNCHANGED att_wire
    /\ UNCHANGED <<gattVars, discVars, host_be, ldb_srcs, rdb_srcs, cp, rd_pending,
                   notify_reg, rx, srv_rd, codec>>

\* The channel is closed by the peer or by the local side.
ChannelClosed == att.state = "connected" /\ Disconnect("closed")

\* No response arrived for the outstanding request within the timeout.
RequestTimeout ==
    att.state = "connected" /\ att.pending_req # 0 /\ Disconnect("timeout")

Min(a, b) == IF a < b THEN a ELSE b

NegotiatedMtu_ClientValue(client_rx, server_max) == client_rx

\* The MTU the server answers an Exchange MTU request with.
NegotiatedMtu(client_rx, server_max) == Min(client_rx, server_max)

\* The client sends Exchange MTU Request, once per connection.
MtuRequest ==
    /\ att.state = "connected"
    /\ mtu.state = "idle"
    /\ \E client_rx \in ClientMtus :
           mtu' = [mtu EXCEPT !.state = "requested", !.client_rx = client_rx]
    /\ UNCHANGED <<ccc, rw, svcVars, attVars, discVars, host_be, ldb_srcs, rdb_srcs, cp,
                   rd_pending, notify_reg, rx, srv_rd, codec>>

\* The server answers and uses the negotiated MTU from then on.
MtuServe ==
    /\ att.state = "connected"
    /\ mtu.state = "requested"
    /\ mtu' = [mtu EXCEPT
                  !.state = "answered",
                  !.rsp = NegotiatedMtu(mtu.client_rx, mtu.server_max),
                  !.server = NegotiatedMtu(mtu.client_rx, mtu.server_max)]
    /\ UNCHANGED <<ccc, rw, svcVars, attVars, discVars, host_be, ldb_srcs, rdb_srcs, cp,
                   rd_pending, notify_reg, rx, srv_rd, codec>>

\* The client receives Exchange MTU Response.
MtuResponse ==
    /\ att.state = "connected"
    /\ mtu.state = "answered"
    /\ mtu' = [mtu EXCEPT !.state = "done", !.client = mtu.rsp]
    /\ UNCHANGED <<ccc, rw, svcVars, attVars, discVars, host_be, ldb_srcs, rdb_srcs, cp,
                   rd_pending, notify_reg, rx, srv_rd, codec>>

InitAtt ==
    /\ \E server_max \in ServerMaxMtus : MtuInit(server_max)
    /\ CccInit("bap")
    /\ RwInit
    /\ SvcInit
    /\ AttInit
    /\ DiscInit
    /\ host_be = FALSE
    /\ ldb_srcs = <<>>
    /\ cp = NoWrite
    /\ srv_rd = NoRead
    /\ codec = NoCodec
    /\ ClientIdle

NextAtt ==
    \/ send_request
    \/ RecvResponse
    \/ send_indication
    \/ RecvConfirmation
    \/ ChannelClosed
    \/ RequestTimeout
    \/ MtuRequest
    \/ MtuServe
    \/ MtuResponse

\* One ATT connection from its establishment to its end.
SpecAtt == InitAtt /\ [][NextAtt]_vars

\* C7: at most one client request is outstanding on a connection at any
\* time, and a send_request made while one is outstanding fails at the call
\* and transmits nothing.
C7_SingleOutstandingRequest ==
    /\ Cardinality(Outstanding) <= 1
    /\ (att_call.op = "send_request" /\ att_call.busy) =>
           (~att_call.ok /\ att_call.sent = 0)

\* A second send_request was made while the first awaited its response.
C7_Witness ==
    /\ att_call.op = "send_request"
    /\ att_call.busy
    /\ Cardinality(Outstanding) = 1

IndOrder(wire) ==
    \A i, j \in DOMAIN wire :
        (i < j /\ wire[i].kind = "ind" /\ wire[j].kind = "ind") =>
            wire[i].id < wire[j].id

C9_DisconnectFinal ==
    att.state = "disconnected" =>
        /\ Cardinality({i \in DOMAIN att_cb : att_cb[i].kind = "disconnect"}) = 1
        /\ att_cb[Len(att_cb)].kind = "disconnect"
        /\ \A id \in att_dis.failed :
               \E i \in DOMAIN att_cb :
                   att_cb[i] = [kind |-> "rsp", id |-> id, ok |-> FALSE,
                                err |-> "disconnected"]
        /\ Outstanding = {}
        /\ ind_queue = <<>>
        /\ Len(att_wire) = att_dis.wire_len
        /\ cli = "null"

\* The connection ended with a request outstanding and an indication
\* queued, and a request was attempted afterwards.
C9_Witness ==
    /\ att.state = "disconnected"
    /\ att_dis.failed # {}
    /\ att_dis.dropped > 0
    /\ att_call.op = "send_request"
    /\ ~att_call.ok

\* C12: each side uses MTU 23 until the Exchange MTU has completed for it;
\* the server's answer is min(client MTU, server maximum MTU), and after the
\* exchange both sides use that value.
C12_MtuNegotiation ==
    /\ mtu.state \in {"idle", "requested"} =>
           mtu.server = BT_ATT_DEFAULT_LE_MTU
    /\ mtu.state # "done" => mtu.client = BT_ATT_DEFAULT_LE_MTU
    /\ mtu.state \in {"answered", "done"} =>
           /\ mtu.rsp = Min(mtu.client_rx, mtu.server_max)
           /\ mtu.server = mtu.rsp
    /\ mtu.state = "done" => mtu.client = mtu.rsp

\* A client asking for 100 from a server whose maximum is 64 ends with 64
\* on both sides.
C12_Witness ==
    /\ mtu.state = "done"
    /\ mtu.client_rx = 100
    /\ mtu.server_max = 64
    /\ mtu.client = 64
    /\ mtu.server = 64


----------------------------------------------------------------------------
\* The GATT client's discovery procedure.  Each step sends one request at
\* a time and sends the next one only when the previous one is answered.

MaxPages == 1

BT_ATT_ERROR_INVALID_HANDLE == 1
BT_ATT_ERROR_REQUEST_NOT_SUPPORTED == 6
BT_ATT_ERROR_ATTRIBUTE_NOT_FOUND == 10
BT_ATT_ERROR_UNLIKELY == 14

ErrorCodes ==
    {BT_ATT_ERROR_INVALID_HANDLE, BT_ATT_ERROR_REQUEST_NOT_SUPPORTED,
     BT_ATT_ERROR_ATTRIBUTE_NOT_FOUND, BT_ATT_ERROR_UNLIKELY}

\* The requests of a discovery, in the order the client sends them.
DiscSteps ==
    <<"mtu", "features", "primary", "secondary", "included",
      "characteristics", "descriptors">>

StepIndex(step) == CHOOSE i \in DOMAIN DiscSteps : DiscSteps[i] = step

\* The steps whose request is repeated over the rest of a handle range.
PagedSteps == {DiscSteps[i] : i \in 2..Len(DiscSteps)}

EndsStep_AnyError(step, ecode) == step \in PagedSteps

\* Attribute Not Found is the expected end of a paged step.
EndsStep(step, ecode) ==
    step \in PagedSteps /\ ecode = BT_ATT_ERROR_ATTRIBUTE_NOT_FOUND

StepAfter_Restart(d) ==
    IF d.step = "descriptors" THEN "done" ELSE "primary"

\* The step that follows a completed one; "done" when nothing is left to
\* search: no service was found, or no characteristic was found.
StepAfter(d) ==
    IF d.step = "secondary" /\ ~d.services THEN "done"
    ELSE IF d.step = "characteristics" /\ ~d.chars THEN "done"
    ELSE IF d.step = "descriptors" THEN "done"
    ELSE DiscSteps[StepIndex(d.step) + 1]

\* client_ready_cb(success, att_ecode, user_data)
client_ready_cb(success, att_ecode) ==
    [success |-> success, att_ecode |-> att_ecode,
     tester |-> IF success THEN "setup_complete" ELSE "setup_failed"]

Answered(log, rsp, ecode) ==
    [log EXCEPT ![Len(log)].rsp = rsp, ![Len(log)].ecode = ecode]

Request(step, page) ==
    [step |-> step, page |-> page, rsp |-> "pending", ecode |-> 0]

\* The current step is complete: send the first request of the next one,
\* or report success when there is none.
Advance(d, log) ==
    LET next == StepAfter(d)
    IN IF next = "done"
       THEN [d EXCEPT !.step = "done", !.page = 0, !.log = log,
                      !.ready = Append(d.ready, client_ready_cb(TRUE, 0))]
       ELSE [d EXCEPT !.step = next, !.page = 0,
                      !.log = Append(log, Request(next, 0))]

DiscActive == disc.step \in {DiscSteps[i] : i \in DOMAIN DiscSteps}

\* bt_gatt_client_new starts discovery with the Exchange MTU request.
DiscStart ==
    /\ disc.step = "idle"
    /\ disc' = [disc EXCEPT !.step = "mtu", !.log = <<Request("mtu", 0)>>]
    /\ UNCHANGED <<gattVars, attVars, host_be, ldb_srcs, rdb_srcs, cp, rd_pending,
                   notify_reg, rx, srv_rd, codec>>

\* A response carrying data; last tells whether it reached the end of the
\* range that the step searches.
DiscResponse ==
    /\ DiscActive
    /\ \E last \in BOOLEAN :
           LET found == [disc EXCEPT
                   !.services = @ \/ disc.step \in {"primary", "secondary"},
                   !.chars = @ \/ disc.step = "characteristics"]
               log == Answered(disc.log, IF last THEN "last" ELSE "data", 0)
           IN IF last \/ disc.step \notin PagedSteps \/ disc.step = "features"
              THEN disc' = Advance(found, log)
              ELSE /\ disc.page < MaxPages
                   /\ disc' = [found EXCEPT
                          !.page = @ + 1,
                          !.log = Append(log, Request(disc.step, disc.page + 1))]
    /\ UNCHANGED <<gattVars, attVars, host_be, ldb_srcs, rdb_srcs, cp, rd_pending,
                   notify_reg, rx, srv_rd, codec>>

\* An Error Response to the request of the current step.
DiscError ==
    /\ DiscActive
    /\ \E ecode \in ErrorCodes :
           LET log == Answered(disc.log, "error", ecode)
           IN IF EndsStep(disc.step, ecode)
              THEN disc' = Advance(disc, log)
              ELSE disc' = [disc EXCEPT
                       !.step = "failed", !.log = log,
                       !.ready = Append(disc.ready,
                                        client_ready_cb(FALSE, ecode))]
    /\ UNCHANGED <<gattVars, attVars, host_be, ldb_srcs, rdb_srcs, cp, rd_pending,
                   notify_reg, rx, srv_rd, codec>>

InitDisc ==
    /\ GattInit
    /\ AttInit
    /\ DiscInit
    /\ host_be = FALSE
    /\ ldb_srcs = <<>>
    /\ cp = NoWrite
    /\ srv_rd = NoRead
    /\ codec = NoCodec
    /\ ClientIdle

NextDisc == DiscStart \/ DiscResponse \/ DiscError

\* One discovery, from the creation of the client to its ready callback.
SpecDisc == InitDisc /\ [][NextDisc]_vars

\* C10: Attribute Not Found answering a paged step ends the step and the
\* next request belongs to a later step, never to the same one again; any
\* other error code is the last answer of the discovery, and the ready
\* callback reports failure with that code.
C10_NotFoundEndsStepOtherErrorAborts ==
    \A i \in DOMAIN disc.log :
        LET e == disc.log[i]
        IN /\ (/\ e.rsp = "error"
               /\ e.ecode = BT_ATT_ERROR_ATTRIBUTE_NOT_FOUND
               /\ e.step \in PagedSteps) =>
                  IF i < Len(disc.log)
                  THEN StepIndex(disc.log[i + 1].step) > StepIndex(e.step)
                  ELSE /\ disc.step = "done"
                       /\ disc.ready = <<client_ready_cb(TRUE, 0)>>
           /\ (e.rsp = "error" /\ e.ecode # BT_ATT_ERROR_ATTRIBUTE_NOT_FOUND) =>
                  /\ i = Len(disc.log)
                  /\ disc.step = "failed"
                  /\ disc.ready = <<client_ready_cb(FALSE, e.ecode)>>

\* Attribute Not Found ended the primary service search after one page of
\* services, discovery went on, and a later step was aborted by another
\* error code.
C10_Witness ==
    /\ disc.step = "failed"
    /\ \E i \in DOMAIN disc.log :
           /\ disc.log[i].step = "primary"
           /\ disc.log[i].page > 0
           /\ disc.log[i].ecode = BT_ATT_ERROR_ATTRIBUTE_NOT_FOUND
    /\ disc.log[Len(disc.log)].step = "characteristics"
    /\ disc.log[Len(disc.log)].ecode = BT_ATT_ERROR_UNLIKELY


\* The six steps the discovery procedure is specified to run, in order.
NamedSteps ==
    <<"mtu", "primary", "secondary", "included", "characteristics",
      "descriptors">>

NamedIndex(step) == CHOOSE i \in DOMAIN NamedSteps : NamedSteps[i] = step

IsNamed(step) == \E i \in DOMAIN NamedSteps : NamedSteps[i] = step

\* The answer that completes a step: its only answer when it is not paged,
\* else the page that reached the end of the range, or Attribute Not Found.
CompletesStep(e) ==
    \/ e.rsp = "last"
    \/ e.rsp = "data" /\ (e.step \notin PagedSteps \/ e.step = "features")
    \/ e.rsp = "error" /\ EndsStep(e.step, e.ecode)

\* C11: the requests of a discovery follow the order Exchange MTU, primary
\* services, secondary services, included services, characteristics,
\* descriptors; only the newest request is unanswered, and a request of a
\* later step follows only the answer that completed the step before it.
C11_FixedStepOrder ==
    /\ \A i, j \in DOMAIN disc.log :
           (i < j /\ IsNamed(disc.log[i].step) /\ IsNamed(disc.log[j].step)) =>
               NamedIndex(disc.log[i].step) <= NamedIndex(disc.log[j].step)
    /\ \A i \in DOMAIN disc.log :
           i < Len(disc.log) =>
               /\ disc.log[i].rsp # "pending"
               /\ IF disc.log[i + 1].step = disc.log[i].step
                  THEN /\ disc.log[i].rsp = "data"
                       /\ disc.log[i + 1].page = disc.log[i].page + 1
                  ELSE CompletesStep(disc.log[i])

\* A discovery that ran all six steps to the end, the characteristic step
\* taking a second page.
C11_Witness ==
    /\ disc.step = "done"
    /\ \A k \in DOMAIN NamedSteps :
           \E i \in DOMAIN disc.log : disc.log[i].step = NamedSteps[k]
    /\ \E i \in DOMAIN disc.log :
           disc.log[i].step = "characteristics" /\ disc.log[i].page = 1


----------------------------------------------------------------------------
\* The CCC callbacks of the unit test servers (gatt_db_ccc_register).

BT_ATT_ERROR_INVALID_OFFSET == 7
BT_ATT_ERROR_INVALID_ATTRIBUTE_VALUE_LEN == 13

\* CCC descriptors of the two notifying characteristics.
CccHandles == {4, 7}

get_le16(b) == b[1] + 256 * b[2]

find_ccc_state_Missing(states, handle) == 0

\* Index of the state recorded for a handle, 0 when there is none.
find_ccc_state(states, handle) ==
    IF \E i \in DOMAIN states : states[i].handle = handle
    THEN CHOOSE i \in DOMAIN states :
             /\ states[i].handle = handle
             /\ \A j \in DOMAIN states : states[j].handle = handle => i <= j
    ELSE 0

\* The state of a handle, created zeroed when there is none: [states, i].
get_ccc_state(states, handle) ==
    LET i == find_ccc_state(states, handle)
    IN IF i # 0 THEN [states |-> states, i |-> i]
       ELSE [states |-> Append(states, [handle |-> handle, value |-> 0]),
             i |-> Len(states) + 1]

\* gatt_ccc_write_cb with a value of at least one byte:
\* [states, ecode, results, val].
gatt_ccc_write_cb(states, handle, offset, value) ==
    IF Len(value) > 2
    THEN [states |-> states, results |-> 1, val |-> 0,
          ecode |-> BT_ATT_ERROR_INVALID_ATTRIBUTE_VALUE_LEN]
    ELSE IF offset > 2
    THEN [states |-> states, results |-> 1, val |-> 0,
          ecode |-> BT_ATT_ERROR_INVALID_OFFSET]
    ELSE LET val == IF Len(value) = 1 THEN value[1] ELSE get_le16(value)
             got == get_ccc_state(states, handle)
         IN IF val = got.states[got.i].value
            THEN [states |-> got.states, results |-> 1, val |-> val,
                  ecode |-> 0]
            ELSE [states |-> [got.states EXCEPT ![got.i].value = val],
                  results |-> 1, val |-> val, ecode |-> 0]

\* The notify callback of unit/test-bap.c: number of notifications sent.
gatt_notify_cb(states, ccc_handle) ==
    LET i == find_ccc_state(states, ccc_handle)
    IN IF i = 0 \/ states[i].value % 2 = 0 THEN 0 ELSE 1

micp_gatt_notify_cb_Silent(states, ccc_handle) == 0

\* The notify callback of unit/test-micp.c: number of notifications sent.
micp_gatt_notify_cb(states, ccc_handle) == 1

\* The value held for a handle: 0 when no state is recorded.
Held(states, handle) ==
    LET i == find_ccc_state(states, handle)
    IN IF i = 0 THEN 0 ELSE states[i].value

CccWriteValues == {<<0>>, <<1>>, <<0, 0>>, <<1, 0>>, <<2, 0>>, <<1, 0, 0>>}

\* A write of a CCC descriptor reaches the registered write callback.  The
\* server of unit/test-micp.c registers none, so its ccc_states are created
\* by reads only and never hold a value other than 0.
CccWrite ==
    \E handle \in CccHandles, offset \in {0, 3}, value \in CccWriteValues :
        LET r == IF ccc.harness = "bap"
                 THEN gatt_ccc_write_cb(ccc.states, handle, offset, value)
                 ELSE [states |-> ccc.states, results |-> 1, val |-> 0,
                       ecode |-> 0]
        IN ccc' = [ccc EXCEPT
                      !.states = r.states,
                      !.call = [op |-> "write", handle |-> handle,
                                offset |-> offset, len |-> Len(value),
                                val |-> r.val, pre |-> ccc.states,
                                ecode |-> r.ecode, results |-> r.results,
                                sent |-> 0]]
    /\ UNCHANGED <<mtu, rw, svcVars, attVars, discVars, host_be, ldb_srcs, rdb_srcs, cp,
                   rd_pending, notify_reg, rx, srv_rd, codec>>

\* A write of no bytes: the callback decodes two bytes the value does not
\* have, so the decoded number is whatever lies behind it.
CccWriteEmpty ==
    /\ ccc.harness = "bap"
    /\ \E handle \in CccHandles, b \in {<<0, 0>>, <<1, 0>>} :
           LET r == gatt_ccc_write_cb(ccc.states, handle, 0, b)
           IN ccc' = [ccc EXCEPT
                         !.states = r.states,
                         !.call = [op |-> "write", handle |-> handle,
                                   offset |-> 0, len |-> 0, val |-> r.val,
                                   pre |-> ccc.states, ecode |-> r.ecode,
                                   results |-> r.results, sent |-> 0]]
    /\ UNCHANGED <<mtu, rw, svcVars, attVars, discVars, host_be, ldb_srcs, rdb_srcs, cp,
                   rd_pending, notify_reg, rx, srv_rd, codec>>

\* gatt_ccc_read_cb: the read creates the state of a handle it has not seen.
CccRead ==
    /\ \E handle \in CccHandles :
           ccc' = [ccc EXCEPT
                      !.states = get_ccc_state(ccc.states, handle).states,
                      !.call = [NoCccCall EXCEPT
                                   !.op = "read", !.handle = handle,
                                   !.pre = ccc.states, !.results = 1,
                                   !.val = Held(ccc.states, handle)]]
    /\ UNCHANGED <<mtu, rw, svcVars, attVars, discVars, host_be, ldb_srcs, rdb_srcs, cp,
                   rd_pending, notify_reg, rx, srv_rd, codec>>

\* The value of a characteristic changed: the database calls the notify
\* callback with the characteristic's CCC descriptor.
CccNotify ==
    /\ \E handle \in CccHandles :
           ccc' = [ccc EXCEPT
                      !.call = [NoCccCall EXCEPT
                                   !.op = "notify", !.handle = handle,
                                   !.pre = ccc.states,
                                   !.sent = IF ccc.harness = "bap"
                                            THEN gatt_notify_cb(ccc.states, handle)
                                            ELSE micp_gatt_notify_cb(ccc.states, handle)]]
    /\ UNCHANGED <<mtu, rw, svcVars, attVars, discVars, host_be, ldb_srcs, rdb_srcs, cp,
                   rd_pending, notify_reg, rx, srv_rd, codec>>

InitCcc ==
    /\ MtuInit(64)
    /\ \E harness \in {"bap", "micp"} : CccInit(harness)
    /\ RwInit
    /\ SvcInit
    /\ AttInit
    /\ DiscInit
    /\ host_be = FALSE
    /\ ldb_srcs = <<>>
    /\ cp = NoWrite
    /\ srv_rd = NoRead
    /\ codec = NoCodec
    /\ ClientIdle

NextCcc == CccWrite \/ CccWriteEmpty \/ CccRead \/ CccNotify

\* The CCC descriptors of a test server: writes, reads and notifications.
SpecCcc == InitCcc /\ [][NextCcc]_vars

\* C13: a CCC write carrying the value the descriptor already holds returns
\* success exactly once, leaves the value held for every handle as it was,
\* leaves the recorded states as they were when the handle had one, and
\* sends nothing.
C13_CccWriteIdempotent ==
    (/\ ccc.harness = "bap"
     /\ ccc.call.op = "write"
     /\ ccc.call.len \in {1, 2}
     /\ ccc.call.offset <= 2
     /\ Held(ccc.call.pre, ccc.call.handle) = ccc.call.val) =>
        /\ ccc.call.ecode = 0
        /\ ccc.call.results = 1
        /\ ccc.call.sent = 0
        /\ \A h \in CccHandles : Held(ccc.states, h) = Held(ccc.call.pre, h)
        /\ (\E i \in DOMAIN ccc.call.pre :
                ccc.call.pre[i].handle = ccc.call.handle) =>
               ccc.states = ccc.call.pre

\* The value 0x0001 written to a descriptor that already holds 0x0001.
C13_Witness ==
    /\ ccc.harness = "bap"
    /\ ccc.call.op = "write"
    /\ ccc.call.len = 2
    /\ ccc.call.val = 1
    /\ Held(ccc.call.pre, ccc.call.handle) = 1
    /\ ccc.call.ecode = 0

\* C14: a notification is transmitted only when the CCC state recorded for
\* the characteristic has the notification bit set at that moment.
C14_NotifyOnlyWhenEnabled ==
    (ccc.call.op = "notify" /\ ccc.call.sent > 0) =>
        Held(ccc.call.pre, ccc.call.handle) % 2 = 1


----------------------------------------------------------------------------
\* Further properties of the server side of the Broadcast Audio Scan Service.

\* C15: every call of the control point write handler reports its result
\* exactly once.
C15_ResultExactlyOnce == CpWritten => Len(cp.results) = 1

\* A source synchronized to PA or to a BIS.
IsSynced(src) ==
    \/ src.sync_state = 2
    \/ \E i \in DOMAIN src.subgroup_data :
           src.subgroup_data[i].bis_sync # <<0, 0, 0, 0>>

C18_AddSourceCreates ==
    (/\ CpWritten
     /\ cp.value \in ValidAddSrcCmds
     /\ Len(cp.pre) < NUM_BCAST_RECV_STATES)
    => /\ Len(ldb_srcs) = Len(cp.pre) + 1
       /\ SrcIds(ldb_srcs) \ SrcIds(cp.pre) # {}

\* C19: an Add Source command of the right length carrying a reserved or
\* invalid parameter creates no source and causes no notification.
C19_InvalidAddSourceIgnored ==
    (CpWritten /\ cp.value \in InvalidAddSrcCmds) => CpUnchanged

\* An Add Source naming a reserved PA_Sync value arrived as a Write Command
\* while a Broadcast Receive State characteristic was free.
C19_Witness ==
    /\ CpWritten
    /\ cp.value = AddSrcWith(0, 0, 6, <<0, 0>>)
    /\ cp.opcode = BT_ATT_OP_WRITE_CMD
    /\ Len(cp.pre) < NUM_BCAST_RECV_STATES

SrvRead == srv_rd.attr # 0

\* C20: a read of a Broadcast Receive State characteristic that has no
\* source succeeds with a value of length zero; a read of one that has a
\* source succeeds with the record the encoder builds for that source, which
\* on a little-endian host is the record's wire format.
C20_RecvStateRead ==
    SrvRead =>
        /\ srv_rd.err = 0
        /\ IF \E i \in DOMAIN ldb_srcs : ldb_srcs[i].attr = srv_rd.attr
           THEN \E i \in DOMAIN ldb_srcs :
                    /\ ldb_srcs[i].attr = srv_rd.attr
                    /\ srv_rd.value = bass_build_notif_from_bcast_src(ldb_srcs[i])
                    /\ Len(srv_rd.value) = NotifLen(ldb_srcs[i])
                    /\ ~host_be => srv_rd.value = WireValue(ldb_srcs[i])
           ELSE srv_rd.value = <<>>

\* The second characteristic was read while it held the source with a bad
\* broadcast code and one subgroup.
C20_Witness ==
    /\ SrvRead
    /\ srv_rd.attr = 2
    /\ \E i \in DOMAIN ldb_srcs : ldb_srcs[i] = SrcB
    /\ Len(srv_rd.value) = BT_BASS_BCAST_SRC_LEN + BT_BASS_BCAST_CODE_SIZE
                           + BT_BASS_BCAST_SRC_SUBGROUP_LEN


----------------------------------------------------------------------------
\* Reliable writes of the interactive client: write-prepare queues a write
\* in a session, write-execute executes or cancels the session.

MaxSessions == 2
MaxPrepares == 2

\* A number typed on the command line: wraps * 2^32 + low.
TypedIds == {[wraps |-> w, low |-> v] : w \in 0..1, v \in 0..(MaxSessions + 1)}

\* strtol's long stored in an unsigned int keeps the low 32 bits.
strtol_unsigned(arg) == arg.low

SessionMismatch_Never(session_id, ongoing) == FALSE

\* The comparison both commands make with cli->reliable_session_id.
SessionMismatch(session_id, ongoing) == session_id # ongoing

\* bt_gatt_client_prepare_write(gatt, id, ...): id 0 opens a session, the id
\* of the ongoing session continues it, any other id fails; the return value is
\* the session id, 0 on failure.
bt_gatt_client_prepare_write(g, id) ==
    IF id # g.session THEN [ret |-> 0, gatt |-> g, sent |-> 0]
    ELSE IF id = 0
    THEN [ret |-> g.next_id,
          gatt |-> [session |-> g.next_id, queued |-> 1,
                    next_id |-> g.next_id + 1],
          sent |-> 1]
    ELSE [ret |-> id, gatt |-> [g EXCEPT !.queued = @ + 1], sent |-> 1]

\* bt_gatt_client_write_execute(gatt, id, ...): the Execute Write Request of
\* the ongoing session, or nothing when id is not that session.
bt_gatt_client_write_execute(g, id) ==
    IF id = 0 \/ id # g.session THEN [ret |-> FALSE, gatt |-> g, sent |-> 0]
    ELSE [ret |-> TRUE, gatt |-> [g EXCEPT !.session = 0, !.queued = 0],
          sent |-> 1]

\* bt_gatt_client_cancel(gatt, id): the queued prepares of the ongoing session
\* are cancelled with an Execute Write Request carrying the cancel flag.
bt_gatt_client_cancel(g, id) ==
    IF id = 0 \/ id # g.session THEN [ret |-> FALSE, gatt |-> g, sent |-> 0]
    ELSE [ret |-> TRUE, gatt |-> [g EXCEPT !.session = 0, !.queued = 0],
          sent |-> 1]

RwPre == [reliable_session_id |-> rw.reliable_session_id, gatt |-> rw.gatt]

RwUnchanged ==
    UNCHANGED <<mtu, ccc, svcVars, att, att_wire, att_cb, ind_queue, att_call, att_dis,
                discVars, host_be, ldb_srcs, rdb_srcs, cp, rd_pending,
                notify_reg, rx, srv_rd, codec>>

\* A command run after client_destroy reads through the null cli: the
\* process is killed before it transmits anything.
RwCrash(op, session_id, wraps) ==
    rw' = [rw EXCEPT !.crashed = TRUE,
                     !.call = [op |-> op, session_id |-> session_id,
                               wraps |-> wraps, cli |-> "null", pre |-> RwPre,
                               sent |-> 0, outcome |-> "crash"]]

\* cmd_write_prepare: "write-prepare [-s id] <handle> <offset> <value>";
\* valid says whether handle, offset and value parse.
cmd_write_prepare ==
    \E id \in 0..(MaxSessions + 1), valid \in BOOLEAN :
        /\ ~rw.crashed
        /\ rw.gatt.queued < MaxPrepares
        /\ rw.gatt.next_id <= MaxSessions
        /\ IF cli = "null" THEN RwCrash("prepare", id, 0)
           ELSE LET r == bt_gatt_client_prepare_write(rw.gatt, id)
                    call == [op |-> "prepare", session_id |-> id, wraps |-> 0,
                             cli |-> "live", pre |-> RwPre, sent |-> 0,
                             outcome |-> "error"] IN
                IF SessionMismatch(id, rw.reliable_session_id) \/ ~valid
                THEN rw' = [rw EXCEPT !.call = call]
                ELSE rw' = [rw EXCEPT
                               !.reliable_session_id = r.ret,
                               !.gatt = r.gatt,
                               !.call = [call EXCEPT
                                            !.sent = r.sent,
                                            !.outcome = IF r.ret = 0
                                                        THEN "failed"
                                                        ELSE "queued"]]
        /\ UNCHANGED cli
        /\ RwUnchanged

\* cmd_write_execute: "write-execute <session_id> <execute>"; execute 0
\* cancels the session.
cmd_write_execute ==
    \E arg \in TypedIds, execute \in BOOLEAN :
        LET session_id == strtol_unsigned(arg)
            op == IF execute THEN "execute" ELSE "cancel" IN
        /\ ~rw.crashed
        /\ IF cli = "null" THEN RwCrash(op, session_id, arg.wraps)
           ELSE LET r == IF execute
                         THEN bt_gatt_client_write_execute(rw.gatt, session_id)
                         ELSE bt_gatt_client_cancel(rw.gatt, session_id)
                    call == [op |-> op, session_id |-> session_id,
                             wraps |-> arg.wraps, cli |-> "live",
                             pre |-> RwPre, sent |-> 0,
                             outcome |-> "error"] IN
                IF SessionMismatch(session_id, rw.reliable_session_id)
                THEN rw' = [rw EXCEPT !.call = call]
                ELSE rw' = [rw EXCEPT
                               !.reliable_session_id = 0,
                               !.gatt = r.gatt,
                               !.call = [call EXCEPT
                                            !.sent = r.sent,
                                            !.outcome = IF r.ret THEN "done"
                                                        ELSE "failed"]]
        /\ UNCHANGED cli
        /\ RwUnchanged

\* The link drops: att_disconnect_cb destroys the client and its session.
RwDisconnected ==
    /\ cli = "live"
    /\ ~rw.crashed
    /\ cli' = att_disconnect_cb(cli)
    /\ rw' = [rw EXCEPT !.reliable_session_id = 0, !.gatt = NoGattSession,
                     !.call = [NoRwCall EXCEPT !.op = "disconnect"]]
    /\ RwUnchanged

InitRw ==
    /\ GattInit
    /\ AttInit
    /\ DiscInit
    /\ host_be = FALSE
    /\ ldb_srcs = <<>>
    /\ cp = NoWrite
    /\ srv_rd = NoRead
    /\ codec = NoCodec
    /\ ClientIdle

NextRw == cmd_write_prepare \/ cmd_write_execute \/ RwDisconnected

\* The interactive client's reliable-write commands.
SpecRw == InitRw /\ [][NextRw]_vars

\* C16: an execute or cancel whose session id is not the ongoing session's
\* transmits nothing, leaves the queued prepares of the session as they
\* were, and leaves the ongoing session id as it was.
C16_MismatchRejectedLocally ==
    (/\ rw.call.op \in {"execute", "cancel"}
     /\ rw.call.cli = "live"
     /\ rw.call.session_id # rw.call.pre.reliable_session_id)
    => /\ rw.call.sent = 0
       /\ rw.call.outcome = "error"
       /\ rw.gatt = rw.call.pre.gatt
       /\ rw.reliable_session_id = rw.call.pre.reliable_session_id

\* Session 1 holds two queued prepares and an execute naming session 2 has
\* just been refused.
C16_Witness ==
    /\ rw.call.op = "execute"
    /\ rw.call.session_id = 2
    /\ rw.call.pre.reliable_session_id = 1
    /\ rw.call.pre.gatt.queued = 2
    /\ rw.reliable_session_id = 1
    /\ rw.gatt.queued = 2


----------------------------------------------------------------------------
\* Further properties of the client's tracking of sources.  A record leaves
\* the queue only through queue_remove followed by bass_bcast_src_free, so a
\* record is allocated exactly while it is queued.

\* The records of the queue bound to attr.
Tracked(srcs, attr) == {i \in 1..Len(srcs) : srcs[i].attr = attr}

C22_EmptyNotifyRemoves ==
    (/\ rx.kind = "notify"
     /\ rx.shape = "empty"
     /\ Tracked(rx.pre, rx.attr) # {})
    => Tracked(rdb_srcs, rx.attr) = {}

\* A record no value has been parsed into: the zeroed structure that
\* foreach_bass_char and bcast_recv_state_notify allocate.
Unparsed(src) == [src EXCEPT !.ptr = 0] = NewSrc(src.attr)

\* C27: every record of the queue holds a source parsed from a notification
\* or a read response.
C27_OnlyParsedTracked ==
    \A i \in 1..Len(rdb_srcs) : ~Unparsed(rdb_srcs[i])

\* C28: the queue holds at most one record for each Broadcast Receive State
\* attribute.
C28_OneRecordPerAttribute ==
    \A attr \in RecvStateAttrs : Cardinality(Tracked(rdb_srcs, attr)) <= 1

\* A notification carrying a source arrived for a characteristic that had a
\* record already, while the other characteristic had one too.
C28_Witness ==
    /\ rx.kind = "notify"
    /\ rx.shape = "full"
    /\ Tracked(rx.pre, rx.attr) # {}
    /\ Len(rx.pre) = 2
    /\ Len(rdb_srcs) = 2

\* C29: the read completion callback never runs on a source record that has
\* been freed.
C29_NoUseAfterFree == ~rx.dangling


----------------------------------------------------------------------------
\* The broadcast code of an encoded record.

\* Bytes the subgroups of a record take: 5 and the metadata for each.
RECURSIVE SubgroupBytes(_)
SubgroupBytes(data) ==
    IF data = <<>> THEN 0
    ELSE 5 + Head(data).meta_len + SubgroupBytes(Tail(data))

CodecHasCode == codec.src.enc = BT_BASS_BIG_ENC_STATE_BAD_CODE

\* C23: the encoded record is 15 bytes, 16 more when the encryption state is
\* Bad Code, and 5 bytes and the metadata for every subgroup; the 16 bytes of
\* the broadcast code follow the encryption state byte when the state is Bad
\* Code and the subgroup count follows it otherwise; the decoder takes the
\* code from the value under the same condition and finds the subgroup count
\* and every subgroup's metadata length where the encoder put them.
C23_BadCodeConditional ==
    (codec.phase \in {"encoded", "decoded"})
    => /\ Len(codec.wire) = 15 + (IF CodecHasCode THEN 16 ELSE 0)
                            + SubgroupBytes(codec.src.subgroup_data)
       /\ codec.wire[14] = codec.src.enc
       /\ IF CodecHasCode
          THEN /\ SubSeq(codec.wire, 15, 30) = codec.src.bad_code
               /\ codec.wire[31] = codec.src.num_subgroups
          ELSE codec.wire[15] = codec.src.num_subgroups
       /\ codec.phase = "decoded"
          => /\ codec.rc = 0
             /\ codec.out.enc = codec.src.enc
             /\ codec.out.bad_code = codec.src.bad_code
             /\ codec.out.num_subgroups = codec.src.num_subgroups
             /\ \A i \in 1..codec.src.num_subgroups :
                    /\ codec.out.subgroup_data[i].meta_len
                           = codec.src.subgroup_data[i].meta_len
                    /\ codec.out.subgroup_data[i].meta
                           = codec.src.subgroup_data[i].meta

\* A record in state Bad Code with the most subgroups, the last with
\* metadata, was encoded and decoded.
C23_Witness ==
    /\ codec.phase = "decoded"
    /\ CodecHasCode
    /\ codec.src.num_subgroups = MaxSubgroups
    /\ codec.src.subgroup_data[MaxSubgroups].meta_len = MaxMetaLen
    /\ codec.out.bad_code = SampleCode


----------------------------------------------------------------------------
\* The global list of CSIP sessions.

MaxEntries == 3

\* queue_remove(sessions, csip): the queue without its first entry for s.
RemoveFirst(q, s) ==
    IF \E i \in 1..Len(q) : q[i] = s
    THEN LET i == CHOOSE k \in 1..Len(q) :
                      q[k] = s /\ \A j \in 1..(k - 1) : q[j] # s
         IN SubSeq(q, 1, i - 1) \o SubSeq(q, i + 1, Len(q))
    ELSE q

\* bt_csip_attach(csip, client); client is "null", a client that can be
\* cloned ("ok") or one whose clone fails ("clonefail").
bt_csip_attach(c, s, client) ==
    LET pushed == [c EXCEPT !.sessions = Append(@, s)] IN
    IF client = "null" THEN [csip |-> pushed, ret |-> TRUE]
    ELSE IF c.client[s] THEN [csip |-> pushed, ret |-> FALSE]
    ELSE IF client = "clonefail" THEN [csip |-> pushed, ret |-> FALSE]
    ELSE [csip |-> [pushed EXCEPT !.client[s] = TRUE], ret |-> TRUE]

\* queue_foreach(csip_cbs, csip_detached, csip): the entries whose function
\* is called, in order.  csip_detached calls cb->detached without testing
\* it, so the walk ends at the first entry registered without one.
FirstWithout(cbs, fn) ==
    IF \E i \in 1..Len(cbs) : ~cbs[i][fn]
    THEN CHOOSE i \in 1..Len(cbs) :
             ~cbs[i][fn] /\ \A j \in 1..(i - 1) : cbs[j][fn]
    ELSE Len(cbs) + 1

csip_detached(cbs) ==
    [called |-> [i \in 1..(FirstWithout(cbs, "detached") - 1) |->
                    [fn |-> "detached", id |-> cbs[i].id]],
     null_call |-> FirstWithout(cbs, "detached") <= Len(cbs)]

\* bt_csip_detach(csip).
bt_csip_detach(c, s) ==
    IF \A i \in 1..Len(c.sessions) : c.sessions[i] # s THEN c
    ELSE [c EXCEPT !.sessions = RemoveFirst(@, s), !.client[s] = FALSE,
                   !.invoked = @ \o csip_detached(c.cbs).called,
                   !.crashed = csip_detached(c.cbs).null_call]

CsipUnchanged ==
    UNCHANGED <<mtu, ccc, rw, mics, cache, asha, attVars, discVars, host_be,
                ldb_srcs, rdb_srcs, cp, rd_pending, notify_reg, rx, srv_rd,
                codec>>

\* The record of a call on session s, with what the call found.
CsipCall(op, s, client, ret) ==
    [op |-> op, session |-> s, client |-> client, ret |-> ret,
     pre |-> csip.sessions,
     pre_client |-> IF s \in CsipSessions THEN csip.client[s] ELSE FALSE,
     pre_cbs |-> csip.cbs,
     pre_refs |-> IF s \in CsipSessions THEN csip.ref_count[s] ELSE 0]

\* The state a call starts from: no callback called yet.
CsipEntered == [csip EXCEPT !.invoked = <<>>]

\* A caller can pass a session it holds a reference to, while the process
\* runs.
CsipHeld(s) == ~csip.crashed /\ csip.state[s] = "live"

CsipAttach ==
    \E s \in CsipSessions, client \in {"null", "ok", "clonefail"} :
        LET r == bt_csip_attach(CsipEntered, s, client) IN
        /\ CsipHeld(s)
        /\ Len(csip.sessions) < MaxEntries
        /\ csip' = [r.csip EXCEPT !.call =
                        CsipCall("attach", s, client, r.ret)]
        /\ CsipUnchanged

CsipDetach ==
    \E s \in CsipSessions :
        /\ CsipHeld(s)
        /\ csip' = [bt_csip_detach(CsipEntered, s) EXCEPT !.call =
                        CsipCall("detach", s, "none", TRUE)]
        /\ CsipUnchanged

InitCsip ==
    /\ GattInit
    /\ AttInit
    /\ DiscInit
    /\ host_be = FALSE
    /\ ldb_srcs = <<>>
    /\ cp = NoWrite
    /\ srv_rd = NoRead
    /\ codec = NoCodec
    /\ ClientIdle

NextCsip == CsipAttach \/ CsipDetach

\* Attaching and detaching CSIP sessions.
SpecCsip == InitCsip /\ [][NextCsip]_vars

Entries(q, s) == {i \in 1..Len(q) : q[i] = s}

\* C30: a session appears at most once in the sessions list; an attach that
\* returns false, or that names a session already in the list, leaves the
\* list as it was.
C30_SessionListedOnce ==
    /\ \A s \in CsipSessions : Cardinality(Entries(csip.sessions, s)) <= 1
    /\ (/\ csip.call.op = "attach"
        /\ \/ ~csip.call.ret
           \/ Entries(csip.call.pre, csip.call.session) # {})
       => csip.sessions = csip.call.pre


----------------------------------------------------------------------------
\* The life of CSIP sessions and of the registered callback entries.

MaxRefs == 2

MaxCbs == 2

\* bt_csip_new(ldb, rdb) placing the new session at s; ldb is "null" or a
\* database ("db").
bt_csip_new(c, s, ldb) ==
    IF ldb = "null" THEN c
    ELSE [c EXCEPT !.state[s] = "live", !.ref_count[s] = 1,
                   !.client[s] = FALSE]

\* bt_csip_ref(csip).
bt_csip_ref(c, s) == [c EXCEPT !.ref_count[s] = @ + 1]

\* csip_free(csip): the session is detached, then its memory is released; a
\* NULL function called on the way ends the process before the release.
csip_free(c, s) ==
    LET detached == bt_csip_detach(c, s) IN
    IF detached.crashed THEN detached
    ELSE [detached EXCEPT !.state[s] = "freed"]

\* bt_csip_unref(csip).
bt_csip_unref(c, s) ==
    LET dropped == [c EXCEPT !.ref_count[s] = @ - 1] IN
    IF dropped.ref_count[s] # 0 THEN dropped ELSE csip_free(dropped, s)

\* bt_csip_register(attached, detached, user_data); attached and detached
\* say whether a function was given.
bt_csip_register(c, attached, detached) ==
    IF ~attached /\ ~detached THEN [csip |-> c, ret |-> 0]
    ELSE [csip |-> [c EXCEPT !.id = @ + 1,
                             !.cbs = Append(@, [id |-> c.id + 1,
                                                attached |-> attached,
                                                detached |-> detached])],
          ret |-> c.id + 1]

\* bt_csip_unregister(id): queue_remove_if takes out the first entry with
\* this id.
bt_csip_unregister(c, id) ==
    IF \E i \in 1..Len(c.cbs) : c.cbs[i].id = id
    THEN [csip |-> [c EXCEPT !.cbs = SelectSeq(@, LAMBDA cb : cb.id # id)],
          ret |-> TRUE]
    ELSE [csip |-> c, ret |-> FALSE]

CsipNew ==
    \E s \in CsipSessions, ldb \in {"null", "db"} :
        /\ ~csip.crashed
        /\ csip.state[s] = "none"
        /\ csip' = [bt_csip_new(CsipEntered, s, ldb) EXCEPT !.call =
                        CsipCall("new", s, "none", ldb # "null")]
        /\ CsipUnchanged

CsipRef ==
    \E s \in CsipSessions :
        /\ CsipHeld(s)
        /\ csip.ref_count[s] < MaxRefs
        /\ csip' = [bt_csip_ref(CsipEntered, s) EXCEPT !.call =
                        CsipCall("ref", s, "none", TRUE)]
        /\ CsipUnchanged

CsipUnref ==
    \E s \in CsipSessions :
        /\ CsipHeld(s)
        /\ csip' = [bt_csip_unref(CsipEntered, s) EXCEPT !.call =
                        CsipCall("unref", s, "none", TRUE)]
        /\ CsipUnchanged

CsipRegister ==
    \E attached \in BOOLEAN, detached \in BOOLEAN :
        LET r == bt_csip_register(CsipEntered, attached, detached) IN
        /\ ~csip.crashed
        /\ csip.id < MaxCbs
        /\ csip' = [r.csip EXCEPT !.call =
                        CsipCall("register", 0, "none", r.ret # 0)]
        /\ CsipUnchanged

CsipUnregister ==
    \E id \in 1..MaxCbs :
        LET r == bt_csip_unregister(CsipEntered, id) IN
        /\ ~csip.crashed
        /\ csip' = [r.csip EXCEPT !.call =
                        CsipCall("unregister", 0, "none", r.ret)]
        /\ CsipUnchanged

InitCsipLife ==
    /\ MtuInit(64)
    /\ CccInit("bap")
    /\ RwInit
    /\ csip = CsipStart("none")
    /\ MicsInit(1)
    /\ CacheInit
    /\ AshaInit
    /\ AttInit
    /\ DiscInit
    /\ host_be = FALSE
    /\ ldb_srcs = <<>>
    /\ cp = NoWrite
    /\ srv_rd = NoRead
    /\ codec = NoCodec
    /\ ClientIdle

NextCsipLife ==
    \/ CsipNew
    \/ CsipRef
    \/ CsipUnref
    \/ CsipRegister
    \/ CsipUnregister
    \/ CsipAttach
    \/ CsipDetach

\* Sessions created, referenced, attached, detached and released, with
\* callback entries registered and unregistered in between.
SpecCsipLife == InitCsipLife /\ [][NextCsipLife]_vars

\* C31: while the process runs, a session is freed when bt_csip_unref drops
\* its last reference and only then, it is detached when freed, and the
\* sessions list holds no entry for a freed session.
C31_FreedSessionUnlisted ==
    ~csip.crashed
    => /\ \A s \in CsipSessions :
              /\ csip.state[s] = "freed" => csip.ref_count[s] = 0
              /\ csip.state[s] = "live" => csip.ref_count[s] >= 1
              /\ csip.state[s] = "freed"
                 => ~csip.client[s] /\ Entries(csip.sessions, s) = {}
       /\ (csip.call.op = "unref" /\ csip.call.pre_refs = 1)
          => csip.state[csip.call.session] = "freed"

\* The entries of cbs registered with function fn, as calls of it.
CallsOf(cbs, fn) ==
    LET with == SelectSeq(cbs, LAMBDA cb : cb[fn])
    IN [i \in 1..Len(with) |-> [fn |-> fn, id |-> with[i].id]]

\* C32: bt_csip_detach on a listed session calls the detached function of
\* each registered entry that has one exactly once, skipping the entries
\* without one; on a session that is not in the list it calls nothing and
\* keeps the client.
C32_DetachCallsEachOnce ==
    csip.call.op = "detach"
    => IF Entries(csip.call.pre, csip.call.session) # {}
       THEN /\ ~csip.crashed
            /\ csip.invoked = CallsOf(csip.call.pre_cbs, "detached")
       ELSE /\ csip.invoked = <<>>
            /\ csip.client[csip.call.session] = csip.call.pre_client
            /\ csip.sessions = csip.call.pre

\* C33: a successful bt_csip_attach calls the attached function of each
\* registered entry that has one, once.
C33_AttachCallsAttached ==
    (csip.call.op = "attach" /\ csip.call.ret)
    => csip.invoked = CallsOf(csip.call.pre_cbs, "attached")


----------------------------------------------------------------------------
\* The microphone control server of unit/test-micp.c: the Mute characteristic
\* at handle 3 and its CCC descriptor at handle 4, served as the scripts of
\* the unit test expect.

BT_ATT_OP_READ_REQ == 10
BT_ATT_OP_READ_RSP == 11
BT_ATT_OP_HANDLE_NFY == 27
BT_ATT_ERROR_VALUE_NOT_ALLOWED == 19
MICP_ERROR_MUTE_DISABLED == 128
MICS_MUTE_HANDLE == 3
MICS_CCC_HANDLE == 4
MICS_NOT_MUTED == 0
MICS_MUTED == 1
MICS_DISABLED == 2

MaxNotified == 3

MuteStates == {MICS_NOT_MUTED, MICS_MUTED, MICS_DISABLED}

mics_mute_write_AnyValue(mute, value) ==
    IF mute = MICS_DISABLED
    THEN [ecode |-> MICP_ERROR_MUTE_DISABLED, mute |-> mute, notify |-> FALSE]
    ELSE [ecode |-> 0, mute |-> value, notify |-> TRUE]

\* The write handler of the Mute characteristic: the error code, the mute
\* state after, and whether the database is asked to notify.
mics_mute_write(mute, value) ==
    IF value \notin {MICS_NOT_MUTED, MICS_MUTED}
    THEN [ecode |-> BT_ATT_ERROR_VALUE_NOT_ALLOWED, mute |-> mute,
          notify |-> FALSE]
    ELSE IF mute = MICS_DISABLED
    THEN [ecode |-> MICP_ERROR_MUTE_DISABLED, mute |-> mute, notify |-> FALSE]
    ELSE [ecode |-> 0, mute |-> value, notify |-> TRUE]

MicsWriteReq(handle, value) ==
    <<BT_ATT_OP_WRITE_REQ, handle, 0>> \o value
MicsReadReq(handle) == <<BT_ATT_OP_READ_REQ, handle, 0>>
MicsErrorRsp(opcode, handle, ecode) ==
    <<BT_ATT_OP_ERROR_RSP, opcode, handle, 0, ecode>>
MicsNotification(value) ==
    <<BT_ATT_OP_HANDLE_NFY, MICS_MUTE_HANDLE, 0, value>>

\* The server's answer to one request PDU: the server after, and the PDUs it
\* sends, the response first.
MicsServe(m, req) ==
    IF req[1] = BT_ATT_OP_READ_REQ
    THEN [mics |-> m, pdus |-> <<<<BT_ATT_OP_READ_RSP, m.mute>>>>]
    ELSE IF req[2] = MICS_CCC_HANDLE
    THEN [mics |-> [m EXCEPT !.ccc = req[4]],
          pdus |-> <<<<BT_ATT_OP_WRITE_RSP>>>>]
    ELSE LET r == mics_mute_write(m.mute, req[4]) IN
         IF r.ecode # 0
         THEN [mics |-> m,
               pdus |-> <<MicsErrorRsp(BT_ATT_OP_WRITE_REQ, MICS_MUTE_HANDLE,
                                       r.ecode)>>]
         ELSE LET n == IF r.notify
                       THEN micp_gatt_notify_cb(<<>>, MICS_CCC_HANDLE)
                       ELSE 0
              IN [mics |-> [m EXCEPT !.mute = r.mute, !.written = TRUE,
                                     !.last = req[4], !.notified = @ + n],
                  pdus |-> <<<<BT_ATT_OP_WRITE_RSP>>>>
                           \o [i \in 1..n |-> MicsNotification(r.mute)]]

\* The requests a peer sends: those of the scripts and one more value.
MicsRequests ==
    {MicsWriteReq(MICS_MUTE_HANDLE, <<v>>) : v \in {0, 1, 2, 5, 255}}
    \cup {MicsWriteReq(MICS_CCC_HANDLE, <<v, 0>>) : v \in {0, 1}}
    \cup {MicsReadReq(MICS_MUTE_HANDLE)}

\* A request arrives and is served.
MicsRequest ==
    \E req \in MicsRequests :
        LET r == MicsServe(mics, req) IN
        /\ mics.notified < MaxNotified
        /\ mics' = [r.mics EXCEPT !.call =
                        [req |-> req, pdus |-> r.pdus, pre_mute |-> mics.mute,
                         pre_ccc |-> mics.ccc]]
        /\ UNCHANGED <<mtu, ccc, rw, csip, cache, asha, attVars, discVars, host_be,
                       ldb_srcs, rdb_srcs, cp, rd_pending, notify_reg, rx,
                       srv_rd, codec>>

InitMics ==
    /\ MtuInit(64)
    /\ CccInit("micp")
    /\ RwInit
    /\ CsipInit
    /\ CacheInit
    /\ AshaInit
    /\ \E mute \in MuteStates : MicsInit(mute)
    /\ AttInit
    /\ DiscInit
    /\ host_be = FALSE
    /\ ldb_srcs = <<>>
    /\ cp = NoWrite
    /\ srv_rd = NoRead
    /\ codec = NoCodec
    /\ ClientIdle

NextMics == MicsRequest

\* The microphone control server answering requests.
SpecMics == InitMics /\ [][NextMics]_vars

\* The exchanges of the unit test, request and expected PDUs in turn.
MICS_WRITE_MUTE_CHAR_INVALID ==
    <<[req |-> <<18, 3, 0, 2>>, pdus |-> <<<<1, 18, 3, 0, 19>>>>],
      [req |-> <<18, 3, 0, 5>>, pdus |-> <<<<1, 18, 3, 0, 19>>>>]>>

MICS_SR_SPN_BV_01_C ==
    <<[req |-> <<18, 4, 0, 0, 0>>, pdus |-> <<<<19>>>>],
      [req |-> <<18, 4, 0, 1, 0>>, pdus |-> <<<<19>>>>],
      [req |-> <<10, 3, 0>>, pdus |-> <<<<11, 1>>>>],
      [req |-> <<18, 3, 0, 0>>, pdus |-> <<<<19>>, <<27, 3, 0, 0>>>>],
      [req |-> <<18, 3, 0, 1>>, pdus |-> <<<<19>>, <<27, 3, 0, 1>>>>],
      [req |-> <<10, 3, 0>>, pdus |-> <<<<11, 1>>>>]>>

MICS_SR_SPE_BI_02_C ==
    <<[req |-> <<10, 3, 0>>, pdus |-> <<<<11, 2>>>>],
      [req |-> <<18, 3, 0, 0>>, pdus |-> <<<<1, 18, 3, 0, 128>>>>],
      [req |-> <<18, 3, 0, 1>>, pdus |-> <<<<1, 18, 3, 0, 128>>>>]>>

\* The server, started with mute, answers every request of script with the
\* PDUs the script expects.
RECURSIVE MicsReproduces(_, _)
MicsReproduces(m, script) ==
    IF script = <<>> THEN TRUE
    ELSE LET r == MicsServe(m, Head(script).req) IN
         /\ r.pdus = Head(script).pdus
         /\ MicsReproduces(r.mics, Tail(script))

MicsStart(mute) ==
    [mute |-> mute, ccc |-> 0, written |-> FALSE, last |-> 0,
            notified |-> 0, call |-> NoMicsCall]

MicsWroteMute ==
    /\ mics.call.req # <<>>
    /\ mics.call.req[1] = BT_ATT_OP_WRITE_REQ
    /\ mics.call.req[2] = MICS_MUTE_HANDLE

\* C25: a Write Request to the Mute characteristic with a value other than
\* 0x00 and 0x01 is answered with the Error Response carrying 0x13 and with
\* nothing else, and the mute state is what it was; the server reproduces
\* MICS_WRITE_MUTE_CHAR_INVALID from every mute state.
C25_InvalidMuteRejected ==
    /\ (MicsWroteMute /\ mics.call.req[4] \notin {0, 1})
       => /\ mics.call.pdus = <<<<1, 18, 3, 0, 19>>>>
          /\ mics.mute = mics.call.pre_mute
    /\ \A mute \in MuteStates :
           MicsReproduces(MicsStart(mute), MICS_WRITE_MUTE_CHAR_INVALID)

\* The value 0x05 was written while the microphone was not muted and
\* notifications were enabled.
C25_Witness ==
    /\ MicsWroteMute
    /\ mics.call.req[4] = 5
    /\ mics.call.pre_mute = MICS_NOT_MUTED
    /\ mics.call.pre_ccc = 1
    /\ mics.mute = MICS_NOT_MUTED

\* A Write Request the server accepts: a value 0x00 or 0x01 while the mute
\* state is not Disabled.
MicsAccepted ==
    /\ MicsWroteMute
    /\ mics.call.req[4] \in {0, 1}
    /\ mics.call.pre_mute # MICS_DISABLED

\* C26: with notifications enabled, an accepted Write Request to the Mute
\* characteristic is answered with a Write Response followed by exactly one
\* notification of handle 3 carrying the written value; a read of the
\* characteristic after an accepted write returns the value last written;
\* the server reproduces MICS_SR_SPN_BV_01_C and MICS_SR_SPE_BI_02_C.
C26_WriteNotifiesReadReturns ==
    /\ (MicsAccepted /\ mics.call.pre_ccc = 1)
       => mics.call.pdus = <<<<19>>, <<27, 3, 0, mics.call.req[4]>>>>
    /\ (/\ mics.call.req # <<>>
        /\ mics.call.req[1] = BT_ATT_OP_READ_REQ
        /\ mics.written)
       => mics.call.pdus = <<<<11, mics.last>>>>
    /\ MicsReproduces(MicsStart(MICS_MUTED), MICS_SR_SPN_BV_01_C)
    /\ MicsReproduces(MicsStart(MICS_DISABLED), MICS_SR_SPE_BI_02_C)

\* With notifications enabled the muted microphone was unmuted by a Write
\* Request, which was answered and notified.
C26_Witness ==
    /\ MicsAccepted
    /\ mics.call.pre_ccc = 1
    /\ mics.call.pre_mute = MICS_MUTED
    /\ mics.call.req[4] = 0
    /\ Len(mics.call.pdus) = 2
    /\ mics.mute = MICS_NOT_MUTED


----------------------------------------------------------------------------
\* The GATT client's service cache.  The remote database is a sequence of
\* attributes, the attribute at position h having handle h; the client
\* discovers its services, then the characteristics of each service, then
\* the descriptors of each characteristic, and registers what the server
\* returns.

MaxHandles == 6

AttrKinds == {"svc", "chr", "val", "desc"}

\* A database as the attribute database builds it: a service declaration
\* first, a value right after each characteristic declaration and nowhere
\* else, descriptors only after a value or a descriptor.
WellFormedDb(db) ==
    /\ db[1] = "svc"
    /\ \A h \in 1..Len(db) :
           /\ db[h] = "chr" => h < Len(db) /\ db[h + 1] = "val"
           /\ db[h] = "val" => h > 1 /\ db[h - 1] = "chr"
           /\ db[h] = "desc" => h > 1 /\ db[h - 1] \in {"val", "desc"}

RemoteDbs ==
    UNION {{db \in [1..n -> AttrKinds] : WellFormedDb(db)} : n \in 1..MaxHandles}

\* The database of the microphone control exchange: service 0x0001-0x0004,
\* the Mute characteristic declared at 0x0002 with its value at 0x0003, and
\* the CCC descriptor at 0x0004.
MicpDb == <<"svc", "chr", "val", "desc">>

\* Entries a Read By Type Response carries: 3 at the default MTU.
PageSizes == {1, 3}

RECURSIVE Sorted(_)
Sorted(S) ==
    IF S = {} THEN <<>>
    ELSE LET least == CHOOSE x \in S : \A y \in S : x <= y
         IN <<least>> \o Sorted(S \ {least})

\* The end of the service declared at start: the last handle before the next
\* service declaration.
ServiceEnd(db, start) ==
    IF \E h \in (start + 1)..Len(db) : db[h] = "svc"
    THEN (CHOOSE h \in (start + 1)..Len(db) :
              db[h] = "svc" /\ \A g \in (start + 1)..(h - 1) : db[g] # "svc") - 1
    ELSE Len(db)

\* Read By Group Type over the whole handle range: every service.
ReadByGroupType(db) ==
    LET starts == Sorted({h \in 1..Len(db) : db[h] = "svc"})
    IN [i \in 1..Len(starts) |->
           [start |-> starts[i], end |-> ServiceEnd(db, starts[i])]]

\* Read By Type for characteristic declarations in lo..hi: the first max of
\* them, each with the value handle its declaration names.
ReadByType(db, lo, hi, max) ==
    LET found == Sorted({h \in lo..hi : h <= Len(db) /\ db[h] = "chr"})
    IN [i \in 1..(IF Len(found) < max THEN Len(found) ELSE max) |->
           [decl |-> found[i], value |-> found[i] + 1]]

\* Find Information over lo..hi: every attribute of the range.
FindInformation(db, lo, hi) ==
    Sorted({h \in lo..hi : h <= Len(db)})

\* The characteristic of the cache that follows characteristic i in the same
\* service, 0 if i is the last of its service.
NextChar(c, i) ==
    IF i < Len(c.chars) /\ c.chars[i + 1].svc = c.chars[i].svc
    THEN i + 1 ELSE 0

DescRange_ToServiceEnd(c, i) ==
    [lo |-> c.chars[i].value + 1, hi |-> c.services[c.chars[i].svc].end]

\* The handles searched for the descriptors of characteristic i: from just
\* past its value up to the next characteristic's declaration or, for the
\* last characteristic of its service, up to the end of the service.
DescRange(c, i) ==
    [lo |-> c.chars[i].value + 1,
     hi |-> IF NextChar(c, i) # 0 THEN c.chars[NextChar(c, i)].decl - 1
            ELSE c.services[c.chars[i].svc].end]

CacheUnchanged ==
    UNCHANGED <<mtu, ccc, rw, csip, mics, asha, attVars, discVars, host_be,
                ldb_srcs, rdb_srcs, cp, rd_pending, notify_reg, rx, srv_rd,
                codec>>

\* The services are discovered.
CacheServices ==
    /\ cache.step = "idle"
    /\ LET services == ReadByGroupType(cache.db) IN
       cache' = [cache EXCEPT !.services = services, !.step = "chars",
                              !.si = 1, !.from = services[1].start]
    /\ CacheUnchanged

\* One Read By Type round trip for the characteristics of the current
\* service: the entries returned are registered, or the search moves on.
CacheCharsPage ==
    /\ cache.step = "chars"
    /\ LET svc == cache.services[cache.si]
           page == ReadByType(cache.db, cache.from, svc.end, cache.per_page)
       IN IF page # <<>>
          THEN cache' = [cache EXCEPT
                   !.chars = @ \o [i \in 1..Len(page) |->
                                       [svc |-> cache.si,
                                        decl |-> page[i].decl,
                                        value |-> page[i].value]],
                   !.from = page[Len(page)].decl + 1]
          ELSE IF cache.si < Len(cache.services)
          THEN cache' = [cache EXCEPT
                   !.si = @ + 1,
                   !.from = cache.services[cache.si + 1].start]
          ELSE cache' = [cache EXCEPT
                   !.step = IF cache.chars = <<>> THEN "done" ELSE "descs",
                   !.ci = IF cache.chars = <<>> THEN 0 ELSE 1]
    /\ CacheUnchanged

\* The descriptors of the current characteristic are searched and
\* registered.
CacheDescriptors ==
    /\ cache.step = "descs"
    /\ LET range == DescRange(cache, cache.ci)
           found == IF range.lo <= range.hi
                    THEN FindInformation(cache.db, range.lo, range.hi)
                    ELSE <<>>
       IN cache' = [cache EXCEPT
              !.descs = @ \o [i \in 1..Len(found) |->
                                  [chr |-> cache.ci, handle |-> found[i]]],
              !.ci = IF cache.ci < Len(cache.chars) THEN @ + 1 ELSE @,
              !.step = IF cache.ci < Len(cache.chars) THEN @ ELSE "done"]
    /\ CacheUnchanged

InitCache ==
    /\ MtuInit(64)
    /\ CccInit("bap")
    /\ RwInit
    /\ CsipInit
    /\ MicsInit(MICS_MUTED)
    /\ \E db \in RemoteDbs, per_page \in PageSizes :
           cache = NewCache(db, per_page)
    /\ AshaInit
    /\ AttInit
    /\ DiscInit
    /\ host_be = FALSE
    /\ ldb_srcs = <<>>
    /\ cp = NoWrite
    /\ srv_rd = NoRead
    /\ codec = NoCodec
    /\ ClientIdle

NextCache == CacheServices \/ CacheCharsPage \/ CacheDescriptors

\* Discovery of a remote database into the client's cache.
SpecCache == InitCache /\ [][NextCache]_vars

\* Every characteristic of the cache lies in its service: past the service
\* declaration, its value right after its declaration, and not past the end.
CharsInService ==
    \A i \in 1..Len(cache.chars) :
        LET c == cache.chars[i]
            svc == cache.services[c.svc]
        IN svc.start < c.decl /\ c.decl < c.value /\ c.value <= svc.end

\* Every descriptor of the cache lies past its characteristic's value and
\* before the declaration of the next characteristic of the service.
DescsAfterValue ==
    \A j \in 1..Len(cache.descs) :
        LET d == cache.descs[j]
            c == cache.chars[d.chr]
        IN /\ c.value < d.handle
           /\ NextChar(cache, d.chr) # 0
              => d.handle < cache.chars[NextChar(cache, d.chr)].decl

\* C24 as the specification words it: the descriptors of the last
\* characteristic of a service lie strictly before the end of the service.
C24_DescriptorsStrictlyInside ==
    /\ CharsInService
    /\ DescsAfterValue
    /\ \A j \in 1..Len(cache.descs) :
           LET d == cache.descs[j]
               c == cache.chars[d.chr]
           IN NextChar(cache, d.chr) = 0
              => d.handle < cache.services[c.svc].end

\* C24: every characteristic of the cache lies within its service's range,
\* and every descriptor lies past its characteristic's value and before the
\* next characteristic's declaration or, for the last characteristic of a
\* service, not past the end of the service.
C24_CacheHandlesNested ==
    /\ CharsInService
    /\ DescsAfterValue
    /\ \A j \in 1..Len(cache.descs) :
           LET d == cache.descs[j]
               c == cache.chars[d.chr]
           IN d.handle <= cache.services[c.svc].end

\* The database of the microphone control exchange has been discovered: the
\* CCC descriptor at the end handle of the service is in the cache.
C24_Witness ==
    /\ cache.db = MicpDb
    /\ cache.step = "done"
    /\ cache.services = <<[start |-> 1, end |-> 4]>>
    /\ cache.chars = <<[svc |-> 1, decl |-> 2, value |-> 3]>>
    /\ cache.descs = <<[chr |-> 1, handle |-> 4]>>


----------------------------------------------------------------------------
\* The stream state of an ASHA device: start and stop requests write the
\* AudioControlPoint, and the write completions and the AudioStatus
\* notifications of the peer move the state on.

MaxWrites == 2

\* AudioStatus values: 0 is success, the others are the peer's refusals.
AudioStatuses == {0, 254, 255}

\* asha_state_reset(asha).
asha_state_reset(a) ==
    [a EXCEPT !.fd = -1, !.state = ASHA_STOPPED, !.resume_id = 0,
              !.cb = FALSE]

\* asha_acp_sent(success, err, asha).
asha_acp_sent(a, success) ==
    IF success THEN a ELSE asha_state_reset(a)

\* asha_send_acp(asha, cmd, len, cb, user_data); written tells whether
\* bt_gatt_client_write_value took the write.
asha_send_acp(a, cmd, written, cb) ==
    IF ~written THEN [asha |-> a, ret |-> -1]
    ELSE [asha |-> [a EXCEPT !.acp = Append(@, cmd), !.cb = cb], ret |-> 0]

\* asha_device_start(asha, cb, user_data); connected tells whether
\* asha_connect_socket opened the socket.
asha_device_start(a, connected, written, cb) ==
    IF a.state # ASHA_STOPPED THEN [asha |-> a, ret |-> 0]
    ELSE IF ~connected THEN [asha |-> a, ret |-> 0]
    ELSE LET opened == [a EXCEPT !.fd = 1]
             sent == asha_send_acp(opened, "start", written, cb)
         IN IF sent.ret < 0 THEN [asha |-> sent.asha, ret |-> 0]
            ELSE [asha |-> [sent.asha EXCEPT !.state = ASHA_STARTING,
                                             !.resume_id = @ + 1],
                  ret |-> sent.asha.resume_id + 1]

\* asha_device_stop(asha, cb, user_data): the state is set before the write
\* is handed over.
asha_device_stop(a, written, cb) ==
    IF a.state # ASHA_STARTED THEN [asha |-> a, ret |-> 0]
    ELSE LET stopping == [a EXCEPT !.state = ASHA_STOPPING]
             sent == asha_send_acp(stopping, "stop", written, cb)
         IN IF sent.ret < 0 THEN [asha |-> sent.asha, ret |-> 0]
            ELSE [asha |-> sent.asha, ret |-> sent.asha.resume_id]

\* audio_status_notify(value_handle, value, length, asha) with status the
\* first byte of the value; the callback is called, if set, and cleared.
audio_status_notify(a, status) ==
    LET moved == IF a.state = ASHA_STARTING
                 THEN IF status = 0 THEN [a EXCEPT !.state = ASHA_STARTED]
                      ELSE asha_state_reset(a)
                 ELSE IF a.state = ASHA_STOPPING THEN asha_state_reset(a)
                 ELSE a
    IN [moved EXCEPT !.cb = FALSE]

AshaUnchanged ==
    UNCHANGED <<mtu, ccc, rw, csip, mics, cache, attVars, discVars, host_be,
                ldb_srcs, rdb_srcs, cp, rd_pending, notify_reg, rx, srv_rd,
                codec>>

AshaCall(op, ret, status, success, cmd) ==
    [op |-> op, pre_state |-> asha.state, ret |-> ret, status |-> status,
     success |-> success, cmd |-> cmd]

AshaStart ==
    \E connected \in BOOLEAN, written \in BOOLEAN, cb \in BOOLEAN :
        LET r == asha_device_start(asha, connected, written, cb) IN
        /\ Len(asha.acp) < MaxWrites
        /\ asha' = [r.asha EXCEPT !.call =
                        AshaCall("start", r.ret, 0, written, "start")]
        /\ AshaUnchanged

AshaStop ==
    \E written \in BOOLEAN, cb \in BOOLEAN :
        LET r == asha_device_stop(asha, written, cb) IN
        /\ Len(asha.acp) < MaxWrites
        /\ asha' = [r.asha EXCEPT !.call =
                        AshaCall("stop", r.ret, 0, written, "stop")]
        /\ AshaUnchanged

\* The oldest AudioControlPoint write completes.
AshaAcpSent ==
    \E success \in BOOLEAN :
        /\ asha.acp # <<>>
        /\ asha' = [asha_acp_sent(asha, success) EXCEPT
                        !.acp = Tail(asha.acp),
                        !.call = AshaCall("acp_sent", 0, 0, success,
                                          Head(asha.acp))]
        /\ AshaUnchanged

\* The peer notifies AudioStatus.
AshaStatusNotify ==
    \E status \in AudioStatuses :
        /\ asha' = [audio_status_notify(asha, status) EXCEPT !.call =
                        AshaCall("notify", 0, status, TRUE, "none")]
        /\ AshaUnchanged

InitAsha ==
    /\ MtuInit(64)
    /\ CccInit("bap")
    /\ RwInit
    /\ CsipInit
    /\ MicsInit(1)
    /\ CacheInit
    /\ AshaInit
    /\ AttInit
    /\ DiscInit
    /\ host_be = FALSE
    /\ ldb_srcs = <<>>
    /\ cp = NoWrite
    /\ srv_rd = NoRead
    /\ codec = NoCodec
    /\ ClientIdle

NextAsha == AshaStart \/ AshaStop \/ AshaAcpSent \/ AshaStatusNotify

\* Start and stop requests, write completions and status notifications in
\* any order.
SpecAsha == InitAsha /\ [][NextAsha]_vars

\* The last call moved the state from pre to post along one of the listed
\* transitions.
AshaListed(pre, post, call) ==
    \/ /\ pre = ASHA_STOPPED /\ post = ASHA_STARTING
       /\ call.op = "start" /\ call.ret # 0
    \/ /\ pre = ASHA_STARTING /\ post = ASHA_STARTED
       /\ call.op = "notify" /\ call.status = 0
    \/ /\ pre = ASHA_STARTING /\ post = ASHA_STOPPED
       /\ \/ call.op = "notify" /\ call.status # 0
          \/ call.op = "acp_sent" /\ ~call.success /\ call.cmd = "start"
    \/ /\ pre = ASHA_STARTED /\ post = ASHA_STOPPING
       /\ call.op = "stop" /\ call.ret # 0
    \/ /\ pre = ASHA_STOPPING /\ post = ASHA_STOPPED
       /\ \/ call.op = "notify"
          \/ call.op = "acp_sent" /\ ~call.success /\ call.cmd = "stop"

\* C34: the stream state changes only along STOPPED to STARTING (start
\* accepted), STARTING to STARTED (status 0), STARTING to STOPPED (non-zero
\* status or failed start write), STARTED to STOPPING (stop accepted) and
\* STOPPING to STOPPED (any status or failed stop write); start is accepted
\* only in STOPPED and stop only in STARTED.
C34_ListedTransitionsOnly ==
    /\ asha.state # asha.call.pre_state
       => AshaListed(asha.call.pre_state, asha.state, asha.call)
    /\ (asha.call.op = "start" /\ asha.call.ret # 0)
       => asha.call.pre_state = ASHA_STOPPED
    /\ (asha.call.op = "stop" /\ asha.call.ret # 0)
       => asha.call.pre_state = ASHA_STARTED

====
